---- MODULE Spec2Model ----
(***************************************************************************)
(* Session discovery and status inference engine of agent-sessions         *)
(* (src-tauri/src): the process scanner, the project path codec, the       *)
(* transcript tail parser, the status state machine, the process to        *)
(* transcript correlator and the status transition tracker.                *)
(*                                                                         *)
(* Times and ages are whole seconds and CPU usage whole percents: every    *)
(* comparison of the code is against a whole constant (3.0, 8.0, 5.0,      *)
(* 10 s, 30 s), so a fractional value behaves as its floor.                *)
(* Text is a sequence of one-character strings.                            *)
(***************************************************************************)
EXTENDS Integers, Sequences, FiniteSets, TLC

VARIABLES
    dsArgs,        \* determine_status: the arguments of the call
    dsResult,      \* determine_status: the SessionStatus returned
    system,        \* sysinfo process table: pid -> process record
    orphaned,      \* is_orphaned_process of every pid of the table
    claudeFound,   \* find_claude_processes: the Vec<ClaudeProcess> returned
    fsDirs,        \* the directories that exist on the filesystem
    codecPath,     \* a project path, as its components
    dirName,       \* convert_path_to_dir_name of the path
    decoded,       \* convert_dir_name_to_path of the directory name
    transcript,    \* the lines of a session's transcript file, oldest first
    findEnv,       \* what else find_session_for_process reads: file times, CPU, directory
    found,         \* find_session_for_process of the transcript as it stands
    agentProcesses, \* the processes handed to get_sessions_internal
    project,       \* a directory of ~/.claude/projects and the filesystem around it
    clock,         \* SystemTime::now(), in seconds
    PREVIOUS_STATUS, \* the transition tracker: session id -> last status, or None
    scanned,       \* the last get_sessions_internal: what it read and the sessions returned
    reported,      \* session id -> the status of the last scan that produced it, None once pruned
    matchProcesses, \* match_processes_to_files_by_time: the processes of one directory
    matchFiles,    \* match_processes_to_files_by_time: the candidate files
    matched,       \* match_processes_to_files_by_time: the map returned
    instant, \* Instant::now(), in seconds
    GH_AVAILABLE, \* whether the gh CLI answered at startup
    WORKTREE_CACHE, \* git.rs: project path -> is it a worktree (permanent)
    GITHUB_URL_CACHE, \* git.rs: project path -> GitHub URL or none (permanent)
    PR_INFO_CACHE, \* git.rs: path:branch -> PR or none (60 s)
    AHEAD_BEHIND_CACHE, \* git.rs: path:branch -> (ahead, behind) or none (30 s)
    CONFIG_CACHE, \* config.rs: project path -> ProjectConfig (60 s)
    lookup, \* the external lookup the last cache operation made, if any
    threads, \* each thread: the handler it runs and the step it is at
    lockHolder, \* each mutex: the thread that holds it, or none
    configFile, \* the .agent-sessions.json of the project
    linksSet, \* the links of a set_project_links that returned Ok, no write since
    startedAfter, \* each thread: its get_config was called after that return
    configReturned, \* each thread: the links such a get_config returned
    lastOk, \* each thread: the link write it returned Ok from, until its next call or a later write of the same links
    agentView, \* an agent's newest message, storage age and CPU usage
    claudeStatus, \* the status the Claude path reports for it
    opencodeStatus \* the status the OpenCode path reports for it

statusVars == <<dsArgs, dsResult>>
processVars == <<system, orphaned, claudeFound>>
codecVars == <<fsDirs, codecPath, dirName, decoded>>
findVars == <<transcript, findEnv, found>>
scanVars == <<agentProcesses, project, clock, PREVIOUS_STATUS, scanned, reported>>
matchVars == <<matchProcesses, matchFiles, matched>>
cacheVars == <<instant, GH_AVAILABLE, WORKTREE_CACHE, GITHUB_URL_CACHE, PR_INFO_CACHE, AHEAD_BEHIND_CACHE, CONFIG_CACHE, lookup>>
threadVars == <<threads, lockHolder, configFile, linksSet, startedAfter, configReturned, lastOk>>
policyVars == <<agentView, claudeStatus, opencodeStatus>>
\* What an operation of one component leaves alone: every other component
notStatusVars == <<processVars, codecVars, findVars, scanVars, matchVars, cacheVars, threadVars, policyVars>>
notProcessVars == <<statusVars, codecVars, findVars, scanVars, matchVars, cacheVars, threadVars, policyVars>>
notCodecVars == <<statusVars, processVars, findVars, scanVars, matchVars, cacheVars, threadVars, policyVars>>
notFindVars == <<statusVars, processVars, codecVars, scanVars, matchVars, cacheVars, threadVars, policyVars>>
notScanVars == <<statusVars, processVars, codecVars, findVars, matchVars, cacheVars, threadVars, policyVars>>
notMatchVars == <<statusVars, processVars, codecVars, findVars, scanVars, cacheVars, threadVars, policyVars>>
notCacheVars == <<statusVars, processVars, codecVars, findVars, scanVars, matchVars, threadVars, policyVars>>
notThreadVars == <<statusVars, processVars, codecVars, findVars, scanVars, matchVars, cacheVars, policyVars>>
vars == <<dsArgs, dsResult, system, orphaned, claudeFound, fsDirs, codecPath, dirName, decoded,
          transcript, findEnv, found, agentProcesses, project, clock, PREVIOUS_STATUS, scanned,
          reported,
          matchProcesses, matchFiles, matched,
          instant, GH_AVAILABLE, WORKTREE_CACHE, GITHUB_URL_CACHE, PR_INFO_CACHE, AHEAD_BEHIND_CACHE, CONFIG_CACHE, lookup,
          threads, lockHolder, configFile, linksSet, startedAfter, configReturned, lastOk,
          agentView, claudeStatus, opencodeStatus>>

\* Option::None of a string; a status not yet computed
None == "None"
NotRun == "NotRun"
\* An operation's result: Nothing before it has run, Some(r) once it returned r
Nothing == <<>>
Some(r) == <<r>>
\* Option::None of a file age (Option<f32>) and of a parent pid (Option<Pid>)
NoAge == -1
NoPid == 0

(***************************************************************************)
(* Bounds of the model                                                     *)
(***************************************************************************)
MaxAge == 9        \* file ages 0..MaxAge seconds are drawn, and None
MaxCpu == 6        \* CPU usages 0..MaxCpu percent are drawn
MaxPid == 4        \* pids 1..MaxPid; pid 1 is init
MaxDepth == 3      \* project paths of 1..MaxDepth components are drawn
MaxLines == 2      \* a transcript grows to MaxLines lines
MaxProcs == 2      \* a scan is handed 1..MaxProcs processes
MaxFiles == 2      \* a project directory holds 0..MaxFiles files
MaxTicks == 1      \* the clock advances MaxTicks seconds
MaxTime == 3       \* start and creation times 0..MaxTime seconds are drawn
MaxInstant == 61   \* the caches are followed for MaxInstant seconds
MaxEntries == 2    \* the caches and the tracker hold MaxEntries entries together
MaxOlder == 1      \* a long run of lines is appended to at most MaxOlder lines

(***************************************************************************)
(* session/model.rs, session/status.rs                                     *)
(***************************************************************************)
SessionStatus == {"Waiting", "Processing", "Thinking", "Compacting", "Idle"}

\* Thresholds of determine_status
RecentSecs == 3
ToolActiveSecs == 8
CpuActive == 5

\* A priority table that lists Compacting behind Idle
status_sort_priority_compacting_last(s) ==
    CASE s = "Thinking" -> 0
      [] s = "Processing" -> 0
      [] s = "Compacting" -> 3
      [] s = "Waiting" -> 1
      [] s = "Idle" -> 2

status_sort_priority(s) ==
    CASE s = "Thinking" -> 0
      [] s = "Processing" -> 0
      [] s = "Compacting" -> 0
      [] s = "Waiting" -> 1
      [] s = "Idle" -> 2

\* A tool_use reply that counts as active only while the file is fresh (the CPU test dropped)
determine_status_no_cpu(last_msg_type, has_tool_use, has_tool_result, is_local_command, is_interrupted, file_age_secs, cpu_usage) ==
    LET file_recently_modified == file_age_secs # NoAge /\ file_age_secs < RecentSecs
        file_active_for_tool == file_age_secs # NoAge /\ file_age_secs < ToolActiveSecs
    IN  CASE last_msg_type = "assistant" ->
                IF has_tool_use
                THEN IF file_active_for_tool THEN "Processing" ELSE "Waiting"
                ELSE IF file_recently_modified THEN "Processing" ELSE "Idle"
          [] last_msg_type = "user" ->
                IF is_local_command \/ is_interrupted THEN "Idle" ELSE "Thinking"
          [] OTHER ->
                IF file_recently_modified THEN "Processing" ELSE "Idle"

\* A text-only reply that also counts as active on CPU usage
determine_status_text_cpu(last_msg_type, has_tool_use, has_tool_result, is_local_command, is_interrupted, file_age_secs, cpu_usage) ==
    LET file_recently_modified == file_age_secs # NoAge /\ file_age_secs < RecentSecs
        file_active_for_tool == file_age_secs # NoAge /\ file_age_secs < ToolActiveSecs
        cpu_active == cpu_usage > CpuActive
    IN  CASE last_msg_type = "assistant" ->
                IF has_tool_use
                THEN IF file_active_for_tool \/ cpu_active THEN "Processing" ELSE "Waiting"
                ELSE IF file_recently_modified \/ cpu_active THEN "Processing" ELSE "Idle"
          [] last_msg_type = "user" ->
                IF is_local_command \/ is_interrupted THEN "Idle" ELSE "Thinking"
          [] OTHER ->
                IF file_recently_modified THEN "Processing" ELSE "Idle"

\* A user message that carries a tool result taken for a finished turn
determine_status_tool_result_idle(last_msg_type, has_tool_use, has_tool_result, is_local_command, is_interrupted, file_age_secs, cpu_usage) ==
    LET file_recently_modified == file_age_secs # NoAge /\ file_age_secs < RecentSecs
        file_active_for_tool == file_age_secs # NoAge /\ file_age_secs < ToolActiveSecs
        cpu_active == cpu_usage > CpuActive
    IN  CASE last_msg_type = "assistant" ->
                IF has_tool_use
                THEN IF file_active_for_tool \/ cpu_active THEN "Processing" ELSE "Waiting"
                ELSE IF file_recently_modified THEN "Processing" ELSE "Idle"
          [] last_msg_type = "user" ->
                IF is_local_command \/ is_interrupted \/ has_tool_result
                THEN "Idle" ELSE "Thinking"
          [] OTHER ->
                IF file_recently_modified THEN "Processing" ELSE "Idle"

\* An unknown file age taken for a file modified just now (unwrap_or(true))
determine_status_unknown_fresh(last_msg_type, has_tool_use, has_tool_result, is_local_command, is_interrupted, file_age_secs, cpu_usage) ==
    LET file_recently_modified == file_age_secs = NoAge \/ file_age_secs < RecentSecs
        file_active_for_tool == file_age_secs = NoAge \/ file_age_secs < ToolActiveSecs
        cpu_active == cpu_usage > CpuActive
    IN  CASE last_msg_type = "assistant" ->
                IF has_tool_use
                THEN IF file_active_for_tool \/ cpu_active THEN "Processing" ELSE "Waiting"
                ELSE IF file_recently_modified THEN "Processing" ELSE "Idle"
          [] last_msg_type = "user" ->
                IF is_local_command \/ is_interrupted THEN "Idle" ELSE "Thinking"
          [] OTHER ->
                IF file_recently_modified THEN "Processing" ELSE "Idle"

determine_status(last_msg_type, has_tool_use, has_tool_result, is_local_command, is_interrupted, file_age_secs, cpu_usage) ==
    LET file_recently_modified == file_age_secs # NoAge /\ file_age_secs < RecentSecs
        file_active_for_tool == file_age_secs # NoAge /\ file_age_secs < ToolActiveSecs
        cpu_active == cpu_usage > CpuActive
    IN  CASE last_msg_type = "assistant" ->
                IF has_tool_use
                THEN IF file_active_for_tool \/ cpu_active THEN "Processing" ELSE "Waiting"
                ELSE IF file_recently_modified THEN "Processing" ELSE "Idle"
          [] last_msg_type = "user" ->
                IF is_local_command \/ is_interrupted THEN "Idle" ELSE "Thinking"
          [] OTHER ->
                IF file_recently_modified THEN "Processing" ELSE "Idle"

(***************************************************************************)
(* Specification of determine_status: the arguments are drawn, the call    *)
(* returns.                                                                *)
(***************************************************************************)
MsgTypes == {"assistant", "user", "system", None}
FileAges == (0 .. MaxAge) \cup {NoAge}
CpuUsages == 0 .. MaxCpu

StatusArgs ==
    [last_msg_type : MsgTypes, has_tool_use : BOOLEAN, has_tool_result : BOOLEAN,
     is_local_command : BOOLEAN, is_interrupted : BOOLEAN,
     file_age_secs : FileAges, cpu_usage : CpuUsages]

StatusIdle == dsArgs = Nothing /\ dsResult = NotRun

StatusInit == dsArgs \in StatusArgs /\ dsResult = NotRun

DetermineStatus ==
    /\ dsResult = NotRun
    /\ dsResult' = determine_status(dsArgs.last_msg_type, dsArgs.has_tool_use,
                                    dsArgs.has_tool_result, dsArgs.is_local_command,
                                    dsArgs.is_interrupted, dsArgs.file_age_secs,
                                    dsArgs.cpu_usage)
    /\ UNCHANGED <<dsArgs, notStatusVars>>


(***************************************************************************)
(* Text                                                                    *)
(***************************************************************************)
UpperChars == <<"A", "B", "C", "D", "E", "L", "U">>
LowerChars == <<"a", "b", "c", "d", "e", "l", "u">>

\* char::to_lowercase on the letters the model uses
LowerChar(c) ==
    IF \E i \in DOMAIN UpperChars : UpperChars[i] = c
    THEN LowerChars[CHOOSE i \in DOMAIN UpperChars : UpperChars[i] = c]
    ELSE c

to_lowercase(s) == [i \in DOMAIN s |-> LowerChar(s[i])]

starts_with(s, pre) ==
    /\ Len(pre) <= Len(s)
    /\ SubSeq(s, 1, Len(pre)) = pre

ends_with(s, suf) ==
    /\ Len(suf) <= Len(s)
    /\ SubSeq(s, Len(s) - Len(suf) + 1, Len(s)) = suf

\* str::contains
contains(s, sub) ==
    \E i \in 1 .. (Len(s) - Len(sub) + 1) : SubSeq(s, i, i + Len(sub) - 1) = sub

RECURSIVE join(_, _)
\* [String]::join(sep)
join(parts, sep) ==
    IF parts = <<>> THEN <<>>
    ELSE IF Len(parts) = 1 THEN parts[1]
    ELSE parts[1] \o sep \o join(Tail(parts), sep)

RECURSIVE Ascending(_)
\* The elements of a set of numbers, smallest first
Ascending(S) ==
    IF S = {} THEN <<>>
    ELSE LET m == CHOOSE x \in S : \A y \in S : x <= y
         IN  <<m>> \o Ascending(S \ {m})

Reverse(s) == [i \in DOMAIN s |-> s[Len(s) + 1 - i]]

\* Two of the orders in which a HashMap keyed by S may be iterated
Orders(S) == {Ascending(S), Reverse(Ascending(S))}

(***************************************************************************)
(* process/claude.rs                                                       *)
(***************************************************************************)
StrClaude == <<"c", "l", "a", "u", "d", "e">>
StrSlashClaude == <<"/", "c", "l", "a", "u", "d", "e">>
StrAcp == <<"c", "l", "a", "u", "d", "e", "-", "c", "o", "d", "e", "-", "a", "c", "p">>
StrClaudeSessions == <<"c", "l", "a", "u", "d", "e", "-", "s", "e", "s", "s", "i", "o", "n", "s">>
StrTauriTemp == <<"t", "a", "u", "r", "i", "-", "t", "e", "m", "p">>
StrAgentSessions == <<"a", "g", "e", "n", "t", "-", "s", "e", "s", "s", "i", "o", "n", "s">>

\* Process images (name and command line) the table is drawn from
ImgInit == [name |-> <<"i", "n", "i", "t">>, cmd |-> <<<<"/", "s", "b", "i", "n", "/", "i", "n", "i", "t">>>>]
ImgShell == [name |-> <<"z", "s", "h">>, cmd |-> <<<<"-", "z", "s", "h">>>>]
ImgClaude == [name |-> <<"c", "l", "a", "u", "d", "e">>, cmd |-> <<<<"c", "l", "a", "u", "d", "e">>>>]
ImgClaudePath == [name |-> <<"n", "o", "d", "e">>, cmd |-> <<<<"/", "b", "/", "C", "l", "a", "u", "d", "e">>, <<"-", "c">>>>]
ImgAcp == [name |-> <<"n", "o", "d", "e">>, cmd |-> <<<<"n", "o", "d", "e">>, <<"/", "z", "/", "c", "l", "a", "u", "d", "e", "-", "c", "o", "d", "e", "-", "a", "c", "p">>>>]
ImgOurApp == [name |-> <<"a", "g", "e", "n", "t", "-", "s", "e", "s", "s", "i", "o", "n", "s">>, cmd |-> <<<<"/", "a", "/", "c", "l", "a", "u", "d", "e">>>>]

Images == {ImgShell, ImgClaude, ImgClaudePath, ImgAcp, ImgOurApp}

Pids == 1 .. MaxPid

\* First argument, lower-cased, is "claude" or ends with "/claude"
is_claude(process) ==
    IF process.cmd # <<>>
    THEN LET first_arg_str == to_lowercase(process.cmd[1])
         IN  first_arg_str = StrClaude \/ ends_with(first_arg_str, StrSlashClaude)
    ELSE FALSE

is_our_app(process) ==
    \/ contains(process.name, StrClaudeSessions)
    \/ contains(process.name, StrTauriTemp)
    \/ contains(process.name, StrAgentSessions)

\* Orphan detection that stops at the direct parent
is_orphaned_process_parent_only(sys, pid) ==
    LET process == sys[pid]
    IN  IF process.parent = NoPid THEN TRUE
        ELSE IF process.parent = 1 THEN TRUE
        ELSE IF process.parent \in DOMAIN sys THEN FALSE
        ELSE TRUE

is_orphaned_process(sys, pid) ==
    LET process == sys[pid]
    IN  IF process.parent = NoPid THEN TRUE
        ELSE IF process.parent = 1 THEN TRUE
        ELSE IF process.parent \in DOMAIN sys
             THEN LET parent_process == sys[process.parent]
                  IN  IF parent_process.parent # NoPid /\ parent_process.parent = 1
                      THEN TRUE
                      ELSE FALSE
        ELSE TRUE

\* First pass of find_claude_processes
claude_pids(sys) == {pid \in DOMAIN sys : is_claude(sys[pid])}

\* Second-pass filter without the sub-agent exclusion
keeps_process_with_subagents(sys, pid) ==
    LET process == sys[pid]
    IN  /\ is_claude(process)
        /\ ~is_our_app(process)
        /\ \/ process.parent = NoPid
           \/ ~(/\ process.parent \in DOMAIN sys
                /\ contains(join(sys[process.parent].cmd, <<" ">>), StrAcp))
        /\ ~is_orphaned_process(sys, pid)

\* Second pass of find_claude_processes: one process reaches processes.push
keeps_process(sys, pid) ==
    LET process == sys[pid]
    IN  /\ is_claude(process)
        /\ ~is_our_app(process)
        /\ \/ process.parent = NoPid
           \/ /\ process.parent \notin claude_pids(sys)
              /\ ~(/\ process.parent \in DOMAIN sys
                   /\ contains(join(sys[process.parent].cmd, <<" ">>), StrAcp))
        /\ ~is_orphaned_process(sys, pid)

RECURSIVE find_claude_processes(_, _)
\* order: the iteration order of system.processes(), a HashMap
find_claude_processes(sys, order) ==
    IF order = <<>> THEN <<>>
    ELSE (IF keeps_process(sys, Head(order)) THEN <<Head(order)>> ELSE <<>>)
         \o find_claude_processes(sys, Tail(order))

(***************************************************************************)
(* Specification of the process scanner: a process table is drawn, the     *)
(* orphan test runs on each of its processes and the scanner runs.         *)
(***************************************************************************)
Proc(parent, image) == [parent |-> parent, name |-> image.name, cmd |-> image.cmd]

InitProcess == Proc(NoPid, ImgInit)

\* The tables whose pids are 1 .. n, drawn pid by pid. pid 1 is init; every
\* other pid is absent or runs one of the images as the child of an older pid
\* (the process tree is acyclic, and the scanner reads no order of the pids
\* but "is 1"), which may itself be absent from the table.
RECURSIVE SystemsUpTo(_)
SystemsUpTo(n) ==
    IF n = 1 THEN {[pid \in {1} |-> InitProcess]}
    ELSE LET older == SystemsUpTo(n - 1)
         IN  older \cup
             {[pid \in DOMAIN sys \cup {n} |->
                  IF pid = n THEN Proc(parent, image) ELSE sys[pid]] :
                 sys \in older, parent \in 0 .. (n - 1), image \in Images}

Systems == SystemsUpTo(MaxPid)

ProcessIdle == system = Nothing /\ orphaned = Nothing /\ claudeFound = Nothing

ProcessInit == system \in Systems /\ orphaned = Nothing /\ claudeFound = Nothing

CheckOrphaned ==
    /\ orphaned = Nothing
    /\ orphaned' = Some([pid \in DOMAIN system |-> is_orphaned_process(system, pid)])
    /\ UNCHANGED <<system, claudeFound, notProcessVars>>

FindClaudeProcesses ==
    /\ claudeFound = Nothing
    /\ \E order \in Orders(DOMAIN system) :
          claudeFound' = Some(find_claude_processes(system, order))
    /\ UNCHANGED <<system, orphaned, notProcessVars>>


(***************************************************************************)
(* session/parser.rs: the project path codec                               *)
(***************************************************************************)
RECURSIVE split_from(_, _, _)
\* str::split(pat) from the text left of the scan: the leftmost,
\* non-overlapping matches of pat separate the parts; acc is the part so far
split_from(s, pat, acc) ==
    IF s = <<>> THEN <<acc>>
    ELSE IF starts_with(s, pat)
         THEN <<acc>> \o split_from(SubSeq(s, Len(pat) + 1, Len(s)), pat, <<>>)
         ELSE split_from(Tail(s), pat, Append(acc, Head(s)))

split(s, pat) == split_from(s, pat, <<>>)

\* str::strip_prefix(c).unwrap_or(s)
strip_prefix(s, c) == IF s # <<>> /\ Head(s) = c THEN Tail(s) ELSE s

\* An encoder that turns every slash into one dash and keeps every dot
encode_chars_single_dash(chars) ==
    [i \in 1 .. Len(chars) |-> IF chars[i] = "/" THEN "-" ELSE chars[i]]

RECURSIVE encode_chars(_)
\* The while-let loop of convert_path_to_dir_name over the remaining characters
encode_chars(chars) ==
    IF chars = <<>> THEN <<>>
    ELSE IF Head(chars) = "/"
         THEN IF Len(chars) >= 2 /\ chars[2] = "."
              THEN <<"-", "-">> \o encode_chars(SubSeq(chars, 3, Len(chars)))
              ELSE <<"-">> \o encode_chars(Tail(chars))
         ELSE <<Head(chars)>> \o encode_chars(Tail(chars))

convert_path_to_dir_name(path) == <<"-">> \o encode_chars(strip_prefix(path, "/"))

\* Path::is_dir: the path names an existing directory; empty components
\* (a doubled or a trailing slash) do not count. dirs holds component lists.
is_dir(dirs, path) ==
    LET comps == split(path, <<"/">>)
    IN  SelectSeq(comps, LAMBDA c : c # <<>>) \in dirs

RECURSIVE probe(_, _, _, _)
\* The for loop of resolve_segment_with_fs from index i on: the confirmed
\* path and last_valid_idx when it ends (indices are 1-based here)
probe(dirs, parts, confirmed_path, i) ==
    IF i > Len(parts) THEN [confirmed_path |-> confirmed_path, last_valid_idx |-> i - 1]
    ELSE LET candidate == confirmed_path \o <<"/">> \o parts[i]
         IN  IF is_dir(dirs, candidate)
             THEN probe(dirs, parts, candidate, i + 1)
             ELSE [confirmed_path |-> confirmed_path, last_valid_idx |-> i - 1]

\* A decoder that never looks at the filesystem: all but the first part is the leaf
resolve_segment_no_probe(dirs, segment) ==
    LET parts == split(segment, <<"-">>)
    IN  IF Len(parts) > 1
        THEN <<"/">> \o parts[1] \o <<"/">> \o join(SubSeq(parts, 2, Len(parts)), <<"-">>)
        ELSE <<"/">> \o parts[1]

resolve_segment_with_fs(dirs, segment) ==
    LET parts == split(segment, <<"-">>)
        walked == probe(dirs, parts, <<"/">> \o parts[1], 2)
    IN  IF walked.last_valid_idx < Len(parts)
        THEN walked.confirmed_path \o <<"/">>
             \o join(SubSeq(parts, walked.last_valid_idx + 1, Len(parts)), <<"-">>)
        ELSE walked.confirmed_path

\* A decoder that keeps the dashes of a hidden segment in the folder name
hidden_segments_keep_dashes(segments) ==
    join([i \in 1 .. Len(segments) |-> <<"/", ".">> \o segments[i]], <<>>)

RECURSIVE hidden_segments(_)
\* The loop over segments[1..]: "/." and the first part, "/" and each later part
hidden_segments(segments) ==
    IF segments = <<>> THEN <<>>
    ELSE LET sub_parts == split(Head(segments), <<"-">>)
         IN  <<"/", ".">> \o join(sub_parts, <<"/">>) \o hidden_segments(Tail(segments))

convert_dir_name_to_path(dirs, dir_name) ==
    LET name == strip_prefix(dir_name, "-")
        segments == split(name, <<"-", "-">>)
        base_path == resolve_segment_with_fs(dirs, segments[1])
    IN  IF Len(segments) = 1 THEN base_path
        ELSE base_path \o hidden_segments(Tail(segments))

(***************************************************************************)
(* Specification of the codec: a filesystem and a path are drawn, the path *)
(* is encoded and the directory name decoded against the filesystem.       *)
(***************************************************************************)
CompA == <<"a">>
CompB == <<"b">>
CompDash == <<"a", "-", "b">>
CompHidden == <<".", "h">>
Components == {CompA, CompB, CompDash, CompHidden}

\* The absolute paths of 1 .. MaxDepth components
Paths == UNION {[1 .. n -> Components] : n \in 1 .. MaxDepth}

\* The text of a path: "/" before each component
PathText(comps) == <<"/">> \o join(comps, <<"/">>)

\* A filesystem holds the root and a set of directories closed under parent
DirPool == {<<CompA>>, <<CompA, CompB>>, <<CompA, CompB, CompA>>, <<CompB>>}

FileSystems ==
    {D \cup {<<>>} : D \in {E \in SUBSET DirPool :
        \A d \in E : Len(d) > 1 => SubSeq(d, 1, Len(d) - 1) \in E}}

CodecIdle ==
    fsDirs = Nothing /\ codecPath = Nothing /\ dirName = Nothing /\ decoded = Nothing

CodecInit ==
    fsDirs \in FileSystems /\ codecPath \in Paths /\ dirName = Nothing /\ decoded = Nothing

Encode ==
    /\ dirName = Nothing
    /\ dirName' = Some(convert_path_to_dir_name(PathText(codecPath)))
    /\ UNCHANGED <<fsDirs, codecPath, decoded, notCodecVars>>

Decode ==
    /\ dirName # Nothing
    /\ decoded = Nothing
    /\ decoded' = Some(convert_dir_name_to_path(fsDirs, dirName[1]))
    /\ UNCHANGED <<fsDirs, codecPath, dirName, notCodecVars>>

(***************************************************************************)
(* session/status.rs: the content of a message                             *)
(*                                                                         *)
(* A content value (serde_json::Value) is absent, a string or an array of  *)
(* blocks; a block has a type and may have a text.                         *)
(***************************************************************************)
NoContent == [kind |-> "absent", text |-> <<>>, blocks |-> <<>>]
Str(text) == [kind |-> "string", text |-> text, blocks |-> <<>>]
Arr(blocks) == [kind |-> "array", text |-> <<>>, blocks |-> blocks]
Block(type, text) == [type |-> type, text |-> text]

is_thinking_only(content) ==
    /\ content.kind = "array"
    /\ content.blocks # <<>>
    /\ \A i \in DOMAIN content.blocks : content.blocks[i].type = "thinking"

has_tool_use(content) ==
    /\ content.kind = "array"
    /\ \E i \in DOMAIN content.blocks : content.blocks[i].type = "tool_use"

has_tool_result(content) ==
    /\ content.kind = "array"
    /\ \E i \in DOMAIN content.blocks : content.blocks[i].type = "tool_result"

\* The string itself, or the text of the first block that has one, or ""
extract_text_content(content) ==
    CASE content.kind = "string" -> content.text
      [] content.kind = "array" ->
            LET with_text == SelectSeq(content.blocks, LAMBDA b : b.text # Nothing)
            IN  IF with_text = <<>> THEN <<>> ELSE with_text[1].text[1]
      [] OTHER -> <<>>

StrInterrupted == <<"[", "R", "e", "q", "u", "e", "s", "t", " ", "i", "n", "t", "e", "r", "r", "u", "p", "t", "e", "d", " ", "b", "y", " ", "u", "s", "e", "r", "]">>
StrStdoutTag == <<"<", "l", "o", "c", "a", "l", "-", "c", "o", "m", "m", "a", "n", "d", "-", "s", "t", "d", "o", "u", "t", ">">>
StrCaveatTag == <<"<", "l", "o", "c", "a", "l", "-", "c", "o", "m", "m", "a", "n", "d", "-", "c", "a", "v", "e", "a", "t", ">">>
StrCommandName == <<"<", "c", "o", "m", "m", "a", "n", "d", "-", "n", "a", "m", "e", ">">>
StrCommandNameEnd == <<"<", "/", "c", "o", "m", "m", "a", "n", "d", "-", "n", "a", "m", "e", ">">>

local_commands ==
    {<<"/", "c", "l", "e", "a", "r">>,
     <<"/", "c", "o", "m", "p", "a", "c", "t">>,
     <<"/", "h", "e", "l", "p">>,
     <<"/", "c", "o", "n", "f", "i", "g">>,
     <<"/", "c", "o", "s", "t">>,
     <<"/", "d", "o", "c", "t", "o", "r">>,
     <<"/", "i", "n", "i", "t">>,
     <<"/", "l", "o", "g", "i", "n">>,
     <<"/", "l", "o", "g", "o", "u", "t">>,
     <<"/", "m", "e", "m", "o", "r", "y">>,
     <<"/", "m", "o", "d", "e", "l">>,
     <<"/", "p", "e", "r", "m", "i", "s", "s", "i", "o", "n", "s">>,
     <<"/", "p", "r", "-", "c", "o", "m", "m", "e", "n", "t", "s">>,
     <<"/", "r", "e", "v", "i", "e", "w">>,
     <<"/", "s", "t", "a", "t", "u", "s">>,
     <<"/", "t", "e", "r", "m", "i", "n", "a", "l", "-", "s", "e", "t", "u", "p">>,
     <<"/", "v", "i", "m">>}

is_interrupted_request(content) == contains(extract_text_content(content), StrInterrupted)

RECURSIVE trim_start(_)
trim_start(s) == IF s # <<>> /\ Head(s) = " " THEN trim_start(Tail(s)) ELSE s

RECURSIVE trim_end(_)
trim_end(s) ==
    IF s # <<>> /\ s[Len(s)] = " " THEN trim_end(SubSeq(s, 1, Len(s) - 1)) ELSE s

\* str::trim, on spaces
trim(s) == trim_end(trim_start(s))

\* A test that takes every text beginning with a vocabulary command
is_local_command_text_any_prefix(trimmed) ==
    \/ starts_with(trimmed, StrStdoutTag)
    \/ starts_with(trimmed, StrCaveatTag)
    \/ \E cmd \in local_commands :
          \/ starts_with(trimmed, cmd)
          \/ starts_with(trimmed, StrCommandName \o cmd)

\* The tests of is_local_slash_command on the trimmed text
is_local_command_text(trimmed) ==
    LET command_text ==
            IF starts_with(trimmed, StrCommandName)
            THEN trim(split(SubSeq(trimmed, Len(StrCommandName) + 1, Len(trimmed)),
                            StrCommandNameEnd)[1])
            ELSE trimmed
    IN  \/ starts_with(trimmed, StrStdoutTag)
        \/ starts_with(trimmed, StrCaveatTag)
        \/ \E cmd \in local_commands :
              command_text = cmd \/ starts_with(command_text, cmd \o <<" ">>)

is_local_slash_command(content) == is_local_command_text(trim(extract_text_content(content)))

(***************************************************************************)
(* session/parser.rs: the transcript tail parser                           *)
(*                                                                         *)
(* A transcript is the sequence of its lines, oldest first. A line either  *)
(* deserializes into a JsonlMessage or does not (parses = FALSE).          *)
(***************************************************************************)
\* Lines read from the end of the file
LookbackLines == 500

JsonlMessage(session_id, msg_type, subtype, is_compact_summary, role, content, usage) ==
    [parses |-> TRUE, session_id |-> session_id, msg_type |-> msg_type,
     subtype |-> subtype, is_compact_summary |-> is_compact_summary,
     role |-> role, content |-> content, usage |-> usage]

\* A line that also has the keys gitBranch and timestamp
Stamped(msg, git_branch, timestamp) ==
    [parses |-> msg.parses, session_id |-> msg.session_id, msg_type |-> msg.msg_type,
     subtype |-> msg.subtype, is_compact_summary |-> msg.is_compact_summary,
     role |-> msg.role, content |-> msg.content, usage |-> msg.usage,
     git_branch |-> git_branch, timestamp |-> timestamp]

\* An optional key of a line: None when the line does not have it
git_branch_of(msg) ==
    IF "git_branch" \in DOMAIN msg THEN Some(msg.git_branch) ELSE Nothing

timestamp_of(msg) ==
    IF "timestamp" \in DOMAIN msg THEN Some(msg.timestamp) ELSE Nothing

\* Every line of the file, newest first
recent_lines_whole_file(lines) == [i \in 1 .. Len(lines) |-> lines[Len(lines) + 1 - i]]

\* lines.iter().rev().take(500)
recent_lines(lines) ==
    LET n == IF Len(lines) < LookbackLines THEN Len(lines) ELSE LookbackLines
    IN  [i \in 1 .. n |-> lines[Len(lines) + 1 - i]]

\* The locals of parse_session_file before its first loop
ParseStart ==
    [session_id |-> None, last_msg_type |-> None, last_role |-> None,
     last_has_tool_use |-> FALSE, last_has_tool_result |-> FALSE,
     last_is_local_command |-> FALSE, last_is_interrupted |-> FALSE,
     found_status_info |-> FALSE, is_compacting |-> FALSE, last_usage |-> Nothing,
     git_branch |-> Nothing, last_timestamp |-> Nothing, last_message |-> Nothing]

\* The compaction test of one line (parser.rs 645-653)
detect_compacting(acc, msg) ==
    IF ~acc.found_status_info /\ ~acc.is_compacting
    THEN IF msg.is_compact_summary THEN FALSE
         ELSE msg.subtype = "compact_boundary"
    ELSE acc.is_compacting

\* A first loop that takes a thinking-only message for the last message
scan_line_takes_thinking(acc, msg) ==
    LET c == msg.content
        has_content ==
            CASE c.kind = "string" -> c.text # <<>>
              [] c.kind = "array" -> c.blocks # <<>>
              [] OTHER -> FALSE
        takes == ~acc.found_status_info /\ has_content
    IN  [session_id |-> IF acc.session_id = None THEN msg.session_id ELSE acc.session_id,
         git_branch |-> IF acc.git_branch = Nothing THEN git_branch_of(msg) ELSE acc.git_branch,
         last_timestamp |->
            IF acc.last_timestamp = Nothing THEN timestamp_of(msg) ELSE acc.last_timestamp,
         last_message |-> acc.last_message,
         last_usage |-> IF acc.last_usage = Nothing THEN msg.usage ELSE acc.last_usage,
         is_compacting |-> detect_compacting(acc, msg),
         last_msg_type |-> IF takes THEN msg.msg_type ELSE acc.last_msg_type,
         last_role |-> IF takes THEN msg.role ELSE acc.last_role,
         last_has_tool_use |-> IF takes THEN has_tool_use(c) ELSE acc.last_has_tool_use,
         last_has_tool_result |-> IF takes THEN has_tool_result(c) ELSE acc.last_has_tool_result,
         last_is_local_command |->
            IF takes THEN is_local_slash_command(c) ELSE acc.last_is_local_command,
         last_is_interrupted |->
            IF takes THEN is_interrupted_request(c) ELSE acc.last_is_interrupted,
         found_status_info |-> acc.found_status_info \/ takes]

\* One line that parsed, in the first loop
scan_line(acc, msg) ==
    LET c == msg.content
        has_content ==
            CASE c.kind = "string" -> c.text # <<>>
              [] c.kind = "array" -> c.blocks # <<>>
              [] OTHER -> FALSE
        takes == ~acc.found_status_info /\ has_content /\ ~is_thinking_only(c)
    IN  [session_id |-> IF acc.session_id = None THEN msg.session_id ELSE acc.session_id,
         git_branch |-> IF acc.git_branch = Nothing THEN git_branch_of(msg) ELSE acc.git_branch,
         last_timestamp |->
            IF acc.last_timestamp = Nothing THEN timestamp_of(msg) ELSE acc.last_timestamp,
         last_message |-> acc.last_message,
         last_usage |-> IF acc.last_usage = Nothing THEN msg.usage ELSE acc.last_usage,
         is_compacting |-> detect_compacting(acc, msg),
         last_msg_type |-> IF takes THEN msg.msg_type ELSE acc.last_msg_type,
         last_role |-> IF takes THEN msg.role ELSE acc.last_role,
         last_has_tool_use |-> IF takes THEN has_tool_use(c) ELSE acc.last_has_tool_use,
         last_has_tool_result |-> IF takes THEN has_tool_result(c) ELSE acc.last_has_tool_result,
         last_is_local_command |->
            IF takes THEN is_local_slash_command(c) ELSE acc.last_is_local_command,
         last_is_interrupted |->
            IF takes THEN is_interrupted_request(c) ELSE acc.last_is_interrupted,
         found_status_info |-> acc.found_status_info \/ takes]

\* if session_id.is_some() && found_status_info && last_usage.is_some() { break; }
breaks(acc) == acc.session_id # None /\ acc.found_status_info /\ acc.last_usage # Nothing

RECURSIVE first_loop(_, _)
\* for line in &recent_lines, newest first: a line that deserializes is
\* taken unless the loop has reached its break. The lines are walked half
\* by half, the newer half first, which keeps a window of 500 lines within
\* the evaluator's reach.
first_loop(lines, acc) ==
    IF lines = <<>> \/ breaks(acc) THEN acc
    ELSE IF Len(lines) = 1
         THEN IF Head(lines).parses THEN scan_line(acc, Head(lines)) ELSE acc
         ELSE first_loop(SubSeq(lines, (Len(lines) \div 2) + 1, Len(lines)),
                         first_loop(SubSeq(lines, 1, Len(lines) \div 2), acc))

\* The text of one line for the preview: a non-empty string content, or
\* the first non-empty text of an array's blocks
preview_text(msg) ==
    IF ~msg.parses THEN Nothing
    ELSE CASE msg.content.kind = "string" ->
                 IF msg.content.text # <<>> THEN Some(msg.content.text) ELSE Nothing
           [] msg.content.kind = "array" ->
                 LET with_text == SelectSeq(msg.content.blocks,
                                      LAMBDA b : b.text # Nothing /\ b.text # Some(<<>>))
                 IN  IF with_text = <<>> THEN Nothing ELSE with_text[1].text
           [] OTHER -> Nothing

\* Characters of a preview
PreviewChars == 100

truncate_preview(m) ==
    IF Len(m) > PreviewChars THEN SubSeq(m, 1, PreviewChars) \o <<".", ".", ".">> ELSE m

\* The second loop over recent_lines: the newest line that has a text
second_loop(lines, acc) ==
    LET texts == {i \in DOMAIN lines : preview_text(lines[i]) # Nothing}
    IN  IF texts = {} THEN acc
        ELSE [acc EXCEPT !.last_message =
                 Some(truncate_preview(
                     preview_text(lines[CHOOSE i \in texts : \A j \in texts : i <= j])[1]))]

\* The two loops of parse_session_file over the same recent_lines
both_loops(lines) == second_loop(lines, first_loop(lines, ParseStart))

\* A status in which a fresh file outranks the compaction marker
session_status_fresh_first(acc, file_age_secs, cpu_usage) ==
    IF acc.is_compacting /\ ~(file_age_secs # NoAge /\ file_age_secs < RecentSecs)
    THEN "Compacting"
    ELSE determine_status(acc.last_msg_type, acc.last_has_tool_use,
             acc.last_has_tool_result, acc.last_is_local_command,
             acc.last_is_interrupted, file_age_secs, cpu_usage)

\* The status of parse_session_file, from what the first loop left
session_status(acc, file_age_secs, cpu_usage) ==
    IF acc.is_compacting THEN "Compacting"
    ELSE determine_status(acc.last_msg_type, acc.last_has_tool_use,
             acc.last_has_tool_result, acc.last_is_local_command,
             acc.last_is_interrupted, file_age_secs, cpu_usage)

\* The context window the percentage is taken of, in tokens
ContextBudget == 200000

\* Option::unwrap_or
unwrap_or(opt, default) == IF opt = Nothing THEN default ELSE opt[1]

\* A percentage that is present whenever usage data is
context_window_percent_of_zero(last_usage) ==
    IF last_usage = Nothing THEN Nothing
    ELSE Some(IF ContextBudget - (unwrap_or(last_usage[1].input_tokens, 0)
                                  + unwrap_or(last_usage[1].cache_creation_input_tokens, 0)
                                  + unwrap_or(last_usage[1].cache_read_input_tokens, 0)) > 0
              THEN ContextBudget - (unwrap_or(last_usage[1].input_tokens, 0)
                                    + unwrap_or(last_usage[1].cache_creation_input_tokens, 0)
                                    + unwrap_or(last_usage[1].cache_read_input_tokens, 0))
              ELSE 0)

\* last_usage.and_then(..) (parser.rs 770-781). A percentage is counted in
\* tokens of the budget: one percent is ContextBudget / 100 tokens, so
\* used_pct = input / 200000 * 100 is input of these units and 100.0 is
\* ContextBudget of them. The rounding of f32 is left out.
context_window_percent(last_usage) ==
    IF last_usage = Nothing THEN Nothing
    ELSE LET input == unwrap_or(last_usage[1].input_tokens, 0)
                      + unwrap_or(last_usage[1].cache_creation_input_tokens, 0)
                      + unwrap_or(last_usage[1].cache_read_input_tokens, 0)
             used_pct == input
         IN  IF input > 0
             THEN Some(IF ContextBudget - used_pct > 0 THEN ContextBudget - used_pct ELSE 0)
             ELSE Nothing

\* let session_id = session_id?, and the Session built
session_of(acc, file_age_secs, pid, cpu_usage) ==
    IF acc.session_id = None THEN Nothing
    ELSE Some([id |-> acc.session_id, pid |-> pid, cpu_usage |-> cpu_usage,
               status |-> session_status(acc, file_age_secs, cpu_usage),
               last_message_role |-> acc.last_role,
               git_branch |-> acc.git_branch,
               last_message |-> acc.last_message,
               last_activity_at |->
                  IF acc.last_timestamp = Nothing THEN "Unknown" ELSE acc.last_timestamp[1],
               active_subagent_count |-> 0,
               context_window_percent |-> context_window_percent(acc.last_usage)])

\* A parser that goes on when File::open has failed
parse_session_file_unopened(file, pid, cpu_usage) ==
    session_of(both_loops(recent_lines(file.lines)), file.age, pid, cpu_usage)

\* file: [path, readable, lines, age]; age is file_age_secs, read from the
\* file's modification time
parse_session_file(file, pid, cpu_usage) ==
    IF ~file.readable THEN Nothing
    ELSE session_of(both_loops(recent_lines(file.lines)), file.age, pid, cpu_usage)

StrAgentPrefix == <<"a", "g", "e", "n", "t", "-">>
StrJsonl == <<".", "j", "s", "o", "n", "l">>

\* name: the file name
is_subagent_file(name) == starts_with(name, StrAgentPrefix) /\ ends_with(name, StrJsonl)

\* Windows of count_active_subagents and of find_session_for_process
SubagentActiveSecs == 30
OtherFileActiveSecs == 10

\* A count that takes every sub-agent file for active, whatever its age
count_active_subagents_any_age(subagents_dir) ==
    IF subagents_dir = Nothing THEN 0
    ELSE Len(SelectSeq(subagents_dir[1], LAMBDA e : is_subagent_file(e.name)))

\* subagents_dir: Nothing when <project>/<session>/subagents does not exist,
\* else Some(entries); an entry is [name, age]
count_active_subagents(subagents_dir) ==
    IF subagents_dir = Nothing THEN 0
    ELSE Len(SelectSeq(subagents_dir[1],
                LAMBDA e : /\ is_subagent_file(e.name)
                           /\ e.age # NoAge /\ e.age < SubagentActiveSecs))

\* A sub-agent override that fires on every status
subagent_override_always(status, active_subagent_count) ==
    IF active_subagent_count > 0 THEN "Processing" ELSE status

\* The sub-agent override (parser.rs 508-516)
subagent_override(status, active_subagent_count) ==
    IF active_subagent_count > 0 /\ status \in {"Waiting", "Idle"}
    THEN "Processing"
    ELSE status

\* An override that takes the status of every other file that parses
more_active_takes_any(status, other_session) ==
    IF other_session # Nothing THEN other_session[1].status ELSE status

\* The status kept after another file has been parsed
more_active(status, other_session) ==
    IF /\ other_session # Nothing
       /\ status_sort_priority(other_session[1].status) < status_sort_priority(status)
    THEN other_session[1].status
    ELSE status

RECURSIVE other_files_loop(_, _, _, _, _, _)
\* for (file_idx, jsonl_path) in jsonl_files.iter().enumerate(), from the
\* 1-based position i on; file_idx is i - 1
other_files_loop(jsonl_files, primary_path, process, assigned_count, i, status) ==
    IF i > Len(jsonl_files) THEN status
    ELSE IF \/ jsonl_files[i].path = primary_path
            \/ i - 1 < assigned_count
            \/ ~(jsonl_files[i].age # NoAge /\ jsonl_files[i].age < OtherFileActiveSecs)
         THEN other_files_loop(jsonl_files, primary_path, process, assigned_count, i + 1, status)
         ELSE other_files_loop(jsonl_files, primary_path, process, assigned_count, i + 1,
                  more_active(status,
                      parse_session_file(jsonl_files[i], process.pid, process.cpu_usage)))

\* find_session_for_process after the primary file has been parsed.
\* The Session returned carries, beside its fields, the index of its primary
\* file (file_index), the status parse_session_file gave (parsed_status) and
\* the status after the sub-agent override (subagent_status).
session_with_overrides(parsed, jsonl_files, subagents, process, index, assigned_count) ==
    IF parsed = Nothing THEN Nothing
    ELSE LET session == parsed[1]
             count == count_active_subagents(subagents[session.id])
             overridden == subagent_override(session.status, count)
         IN  Some([id |-> session.id, pid |-> session.pid,
                   cpu_usage |-> session.cpu_usage, file_index |-> index,
                   status |-> other_files_loop(jsonl_files, jsonl_files[index + 1].path,
                                               process, assigned_count, 1, overridden),
                   last_message_role |-> session.last_message_role,
                   git_branch |-> session.git_branch,
                   last_message |-> session.last_message,
                   last_activity_at |-> session.last_activity_at,
                   active_subagent_count |-> count,
                   context_window_percent |-> session.context_window_percent,
                   parsed_status |-> session.status,
                   subagent_status |-> overridden])

\* subagents: session id -> the subagents directory of that session
find_session_for_process(jsonl_files, subagents, process, index, assigned_count) ==
    IF index + 1 > Len(jsonl_files) THEN Nothing
    ELSE session_with_overrides(
             parse_session_file(jsonl_files[index + 1], process.pid, process.cpu_usage),
             jsonl_files, subagents, process, index, assigned_count)

(***************************************************************************)
(* One process and its transcript: the lines an agent writes, and          *)
(* find_session_for_process on the directory listing                       *)
(***************************************************************************)
SessionIds == {"s1", "s2"}

PathProject == <<"/", "a", "/", "b">>
PathDashed == <<"/", "a", "-", "b">>

\* cwd: Nothing or Some(path)
AgentProcess(pid, cpu_usage, cwd, start_time) ==
    [pid |-> pid, cpu_usage |-> cpu_usage, cwd |-> cwd, start_time |-> start_time]

TokenUsage(input, creation, read) ==
    [input_tokens |-> input, cache_creation_input_tokens |-> creation,
     cache_read_input_tokens |-> read]

\* A line that is not a JsonlMessage
LineGarbage == [parses |-> FALSE]
LineProgress == JsonlMessage("s1", "progress", None, FALSE, None, NoContent, Nothing)
LineBoundary == JsonlMessage("s1", "system", "compact_boundary", FALSE, None, NoContent, Nothing)
LineSummary ==
    JsonlMessage("s1", "user", None, TRUE, "user", Str(<<"s", "u", "m">>), Nothing)
LineSummaryBare == JsonlMessage("s1", "system", "compact_boundary", TRUE, None, NoContent, Nothing)
\* An isCompactSummary line whose message has an empty content
LineSummaryEmpty == JsonlMessage("s1", "user", None, TRUE, "user", Str(<<>>), Nothing)
LineAssistantText ==
    Stamped(JsonlMessage("s1", "assistant", None, FALSE, "assistant",
                         Arr(<<Block("text", Some(<<"o", "k">>))>>),
                         Some(TokenUsage(Some(1), Some(0), Some(0)))),
            "main", "t1")
LineAssistantToolUse ==
    JsonlMessage("s1", "assistant", None, FALSE, "assistant",
                 Arr(<<Block("text", Some(<<"o", "k">>)), Block("tool_use", Nothing)>>),
                 Some(TokenUsage(Some(1), Some(0), Some(0))))
LineThinking ==
    JsonlMessage("s1", "assistant", None, FALSE, "assistant",
                 Arr(<<Block("thinking", Nothing)>>), Nothing)
LineUserText ==
    Stamped(JsonlMessage("s2", "user", None, FALSE, "user", Str(<<"h", "i">>), Nothing),
            "dev", "t2")
LineUserClear ==
    JsonlMessage("s1", "user", None, FALSE, "user", Str(<<" ", "/", "c", "l", "e", "a", "r", " ", "x">>), Nothing)
LineToolResult ==
    JsonlMessage("s1", "user", None, FALSE, "user",
                 Arr(<<Block("tool_result", Nothing)>>), Nothing)
LineInterrupted ==
    JsonlMessage("s1", "user", None, FALSE, "user",
                 Arr(<<Block("text", Some(StrInterrupted))>>), Nothing)
\* A message without a sessionId
LineNoSession ==
    JsonlMessage(None, "assistant", None, FALSE, "assistant", Str(<<"o", "k">>), Nothing)

LinePool ==
    {LineGarbage, LineProgress, LineBoundary, LineSummary, LineSummaryBare, LineSummaryEmpty,
     LineAssistantText, LineAssistantToolUse, LineThinking, LineUserText,
     LineUserClear, LineToolResult, LineInterrupted, LineNoSession}

NamePrimary == <<"a", ".", "j", "s", "o", "n", "l">>
NameOther == <<"b", ".", "j", "s", "o", "n", "l">>
NameAgent == <<"a", "g", "e", "n", "t", "-", "1", ".", "j", "s", "o", "n", "l">>
NameNotes == <<"n", "o", "t", "e", "s", ".", "j", "s", "o", "n", "l">>

\* A transcript file as parse_session_file meets it
FileView(path, readable, lines, age) ==
    [path |-> path, readable |-> readable, lines |-> lines, age |-> age]

\* What the primary transcript's metadata and File::open can give
PrimaryStats ==
    {[age |-> NoAge, readable |-> TRUE], [age |-> 2, readable |-> TRUE],
     [age |-> 3, readable |-> TRUE], [age |-> 8, readable |-> TRUE],
     [age |-> 2, readable |-> FALSE]}

\* The subagents directory of the session: missing, one agent file inside
\* the window, or an agent file outside it beside a fresh file of another
\* name and an agent file whose modification time cannot be read
SubagentDirs ==
    {Nothing,
     Some(<<[name |-> NameAgent, age |-> 29]>>),
     Some(<<[name |-> NameAgent, age |-> 30], [name |-> NameNotes, age |-> 0],
            [name |-> NameAgent, age |-> NoAge]>>)}

\* The other transcript files of the directory, before and after the
\* primary one in the listing, and the number of processes of the directory
Listing(before, after, assigned_count) ==
    [before |-> before, after |-> after, assigned_count |-> assigned_count]

Listings ==
    {Listing(<<>>, <<>>, 1),
     Listing(<<>>, <<FileView(NameOther, TRUE, <<LineUserText>>, 9)>>, 1),
     Listing(<<>>, <<FileView(NameOther, TRUE, <<LineUserText>>, 10)>>, 1),
     Listing(<<>>, <<FileView(NameOther, TRUE, <<LineUserText>>, 9)>>, 2),
     Listing(<<FileView(NameOther, TRUE, <<LineUserText>>, 9)>>, <<>>, 2),
     Listing(<<>>, <<FileView(NameOther, TRUE, <<LineBoundary>>, 9)>>, 1),
     Listing(<<>>, <<FileView(NameOther, TRUE, <<LineAssistantToolUse>>, 9)>>, 1),
     Listing(<<>>, <<FileView(NameOther, TRUE, <<LineGarbage>>, 0)>>, 1)}

FindEnvs ==
    [stat : PrimaryStats, cpu_usage : {CpuActive, CpuActive + 1},
     dir : SubagentDirs, listing : Listings]

\* The arguments of find_session_for_process in the present state
jsonl_files_now ==
    findEnv.listing.before
        \o <<FileView(NamePrimary, findEnv.stat.readable, transcript, findEnv.stat.age)>>
        \o findEnv.listing.after
subagents_now == [sid \in SessionIds |-> findEnv.dir]
index_now == Len(findEnv.listing.before)

FindIdle == transcript = <<>> /\ findEnv = Nothing /\ found = Nothing

FindInit == transcript = <<>> /\ findEnv \in FindEnvs /\ found = Nothing

\* The agent writes one more line to the transcript; what was found for
\* the shorter file is no longer the answer for this one
AppendLine ==
    /\ Len(transcript) < MaxLines
    /\ \E line \in LinePool : transcript' = Append(transcript, line)
    /\ found' = Nothing
    /\ UNCHANGED <<findEnv, notFindVars>>

\* The file grows by a long run of lines that do not deserialize and then
\* a progress line: together one line short of the lookback window, or as
\* long as it
AppendProgress ==
    /\ Len(transcript) <= MaxOlder
    /\ \E n \in {LookbackLines - 2, LookbackLines - 1} :
          transcript' = transcript \o [i \in 1 .. n |-> LineGarbage] \o <<LineProgress>>
    /\ found' = Nothing
    /\ UNCHANGED <<findEnv, notFindVars>>

\* find_session_for_process for the process that owns the transcript
FindSession ==
    /\ \E session \in {find_session_for_process(jsonl_files_now, subagents_now,
                            AgentProcess(11, findEnv.cpu_usage, Some(PathProject), 10),
                            index_now, findEnv.listing.assigned_count)} :
          found' = Some(session)
    /\ UNCHANGED <<transcript, findEnv, notFindVars>>

(***************************************************************************)
(* session/parser.rs: one scan of a project directory                      *)
(***************************************************************************)
\* A file time that cannot be read
NoTime == -1

\* An entry of the project directory; modified and created in seconds
DirEntry(name, readable, lines, modified, created) ==
    [name |-> name, readable |-> readable, lines |-> lines,
     modified |-> modified, created |-> created]

\* Path::extension of the name is "jsonl"
has_jsonl_extension(name) == Len(name) > Len(StrJsonl) /\ ends_with(name, StrJsonl)

\* The files as read_dir listed them
sort_newest_first_unsorted(files) == files

RECURSIVE sort_newest_first(_)
\* The stable sort_by(|a, b| b.1.cmp(&a.1)): each file goes behind the
\* files before it in the input that are as new or newer
sort_newest_first(files) ==
    IF files = <<>> THEN <<>>
    ELSE LET sorted == sort_newest_first(SubSeq(files, 1, Len(files) - 1))
             f == files[Len(files)]
             k == Cardinality({i \in DOMAIN sorted : sorted[i].modified >= f.modified})
         IN  SubSeq(sorted, 1, k) \o <<f>> \o SubSeq(sorted, k + 1, Len(sorted))

\* entries: the directory in read_dir order
get_recently_active_jsonl_files(entries) ==
    sort_newest_first(SelectSeq(entries,
        LAMBDA e : /\ has_jsonl_extension(e.name) /\ ~is_subagent_file(e.name)
                   /\ e.modified # NoTime))

\* now.duration_since(modified).ok(), in whole seconds
file_age(now, modified) ==
    IF modified = NoTime \/ modified > now THEN NoAge ELSE now - modified

\* The file as parse_session_file meets it at time now
stat_file(entry, now) ==
    FileView(entry.name, entry.readable, entry.lines, file_age(now, entry.modified))

\* The pairs as pushed, process by process
sort_by_distance_unsorted(pairs) == pairs

RECURSIVE sort_by_distance(_)
\* The stable pairs.sort_by_key(|&(_, _, d)| d)
sort_by_distance(pairs) ==
    IF pairs = <<>> THEN <<>>
    ELSE LET sorted == sort_by_distance(SubSeq(pairs, 1, Len(pairs) - 1))
             p == pairs[Len(pairs)]
             k == Cardinality({i \in DOMAIN sorted : sorted[i].distance <= p.distance})
         IN  SubSeq(sorted, 1, k) \o <<p>> \o SubSeq(sorted, k + 1, Len(sorted))

RECURSIVE greedy_match(_, _, _, _, _)
\* for (pi, fi, distance) in pairs: result maps a pid to a file index
greedy_match(processes, pairs, assigned_processes, assigned_files, result) ==
    IF pairs = <<>> THEN result
    ELSE LET p == Head(pairs)
         IN  IF p.pi \in assigned_processes \/ p.fi \in assigned_files
             THEN greedy_match(processes, Tail(pairs), assigned_processes, assigned_files, result)
             ELSE LET pid == processes[p.pi + 1].pid
                  IN  greedy_match(processes, Tail(pairs),
                          assigned_processes \cup {p.pi}, assigned_files \cup {p.fi},
                          [q \in DOMAIN result \cup {pid} |-> IF q = pid THEN p.fi ELSE result[q]])

\* The map returned, with the index of the file in place of its path
match_processes_to_files_by_time(processes, candidate_files) ==
    LET all_times == [i \in DOMAIN candidate_files |->
                         [fi |-> i - 1, secs |-> candidate_files[i].created]]
        file_times == SelectSeq(all_times, LAMBDA t : t.secs # NoTime)
        m == Len(file_times)
        pairs == [j \in 1 .. Len(processes) * m |->
                    LET pi == (j - 1) \div m
                        t == file_times[((j - 1) % m) + 1]
                        start == processes[pi + 1].start_time
                    IN  [pi |-> pi, fi |-> t.fi,
                         distance |-> IF start > t.secs THEN start - t.secs ELSE t.secs - start]]
    IN  IF Len(processes) < 2 \/ candidate_files = <<>> \/ file_times = <<>>
        THEN <<>>
        ELSE greedy_match(processes, sort_by_distance(pairs), {}, {}, <<>>)

\* (0..jsonl_files.len()).find(|i| !used_indices.contains(i)).unwrap_or(0)
fallback_index(len, used_indices) ==
    LET free == {i \in 0 .. len - 1 : i \notin used_indices}
    IN  IF free = {} THEN 0 ELSE CHOOSE i \in free : \A j \in free : i <= j

\* A tracker whose last status holds back the step from Processing to Idle
track_transition_held(prev_status_map, session) ==
    [map |-> [prev_status_map EXCEPT ![session.id] = session.status],
     session |-> IF prev_status_map[session.id] = "Processing" /\ session.status = "Idle"
                 THEN [session EXCEPT !.status = "Processing"]
                 ELSE session]

\* A tracker that keeps the first status it saw for an id (entry().or_insert)
track_transition_first_wins(prev_status_map, session) ==
    [map |-> IF prev_status_map[session.id] = None
             THEN [prev_status_map EXCEPT ![session.id] = session.status]
             ELSE prev_status_map,
     session |-> session]

\* The tracker step of one Session: the map after the insert, and the
\* Session pushed
track_transition(prev_status_map, session) ==
    [map |-> [prev_status_map EXCEPT ![session.id] = session.status],
     session |-> session]

RECURSIVE process_loop(_, _, _, _, _, _, _, _)
\* The end of the loop body: the Session found is tracked and pushed, and
\* the loop goes on with the next process
push_session(session, processes, i, jsonl_files, subagents, pid_to_jsonl, used_indices, prev_status_map, sessions) ==
    IF session = Nothing
    THEN process_loop(processes, i + 1, jsonl_files, subagents, pid_to_jsonl,
                      used_indices, prev_status_map, sessions)
    ELSE process_loop(processes, i + 1, jsonl_files, subagents, pid_to_jsonl, used_indices,
                      track_transition(prev_status_map, session[1]).map,
                      Append(sessions, track_transition(prev_status_map, session[1]).session))

\* The file index of a process: its time-matched file, else the fallback
file_index_of(process, pid_to_jsonl, len, used_indices) ==
    IF process.pid \in DOMAIN pid_to_jsonl THEN pid_to_jsonl[process.pid]
    ELSE fallback_index(len, used_indices)

\* for process in matching_processes.iter(), from the 1-based position i on
process_loop(processes, i, jsonl_files, subagents, pid_to_jsonl, used_indices, prev_status_map, sessions) ==
    IF i > Len(processes) THEN [sessions |-> sessions, prev_status_map |-> prev_status_map]
    ELSE push_session(
             find_session_for_process(jsonl_files, subagents, processes[i],
                 file_index_of(processes[i], pid_to_jsonl, Len(jsonl_files), used_indices),
                 Len(processes)),
             processes, i, jsonl_files, subagents, pid_to_jsonl,
             used_indices \cup {file_index_of(processes[i], pid_to_jsonl,
                                              Len(jsonl_files), used_indices)},
             prev_status_map, sessions)

\* A map that is given up when a process has no cwd
cwd_keys_all_or_none(processes) ==
    IF \E j \in DOMAIN processes : processes[j].cwd = Nothing THEN {}
    ELSE {processes[i].cwd[1] : i \in DOMAIN processes}

\* The working directories that cwd_to_processes knows
cwd_keys(processes) ==
    {processes[i].cwd[1] : i \in {j \in DOMAIN processes : processes[j].cwd # Nothing}}

\* A lookup that trusts the decoded path alone
matching_cwds_decoded_only(processes, dirs, dir_name) ==
    {convert_dir_name_to_path(dirs, dir_name)} \cap cwd_keys(processes)

\* The keys get_sessions_internal can take for the project: the decoded
\* path if it is a key, else any key that encodes to the directory name
matching_cwds(processes, dirs, dir_name) ==
    LET project_path == convert_dir_name_to_path(dirs, dir_name)
    IN  IF project_path \in cwd_keys(processes) THEN {project_path}
        ELSE {cwd \in cwd_keys(processes) : convert_path_to_dir_name(cwd) = dir_name}

\* The body of the loop over project directories, for the directory whose
\* processes are those of cwd: entries is the directory in read_dir order,
\* subagents the subagents directories by session id
get_sessions_internal(processes, cwd, entries, subagents, now, prev_status_map) ==
    LET matching_processes == SelectSeq(processes, LAMBDA q : q.cwd = Some(cwd))
        jsonl_files == get_recently_active_jsonl_files(entries)
        pid_to_jsonl ==
            IF Len(matching_processes) > 1
            THEN match_processes_to_files_by_time(matching_processes, jsonl_files)
            ELSE <<>>
    IN  process_loop(matching_processes, 1,
                     [i \in DOMAIN jsonl_files |-> stat_file(jsonl_files[i], now)],
                     subagents, pid_to_jsonl, {}, prev_status_map, <<>>)

(***************************************************************************)
(* Specification of the scan: processes and a project directory are drawn, *)
(* the clock advances, and scans follow one another on one tracker.        *)
(***************************************************************************)
\* The clock when the model starts
StartNow == 12

AssistantToolUse(sid) ==
    JsonlMessage(sid, "assistant", None, FALSE, "assistant",
                 Arr(<<Block("tool_use", Nothing)>>), Some(TokenUsage(Some(1), Some(0), Some(0))))

NameThird == <<"c", ".", "j", "s", "o", "n", "l">>
DirNameProject == <<"-", "a", "-", "b">>

ProcessPool ==
    {AgentProcess(11, 0, Some(PathProject), 10),
     AgentProcess(12, 6, Some(PathProject), 12),
     AgentProcess(13, 0, Some(PathProject), 11),
     AgentProcess(14, 0, Some(PathDashed), 10),
     AgentProcess(15, 0, Nothing, 10)}

\* 1 .. MaxProcs processes of the pool, by rising or falling pid
ProcessLists ==
    {[i \in DOMAIN order |-> CHOOSE q \in ProcessPool : q.pid = order[i]] :
        order \in UNION {Orders({q.pid : q \in S}) :
                            S \in {T \in SUBSET ProcessPool :
                                      Cardinality(T) \in 1 .. MaxProcs}}}

EntryPool ==
    <<DirEntry(NamePrimary, TRUE, <<LineAssistantText>>, 10, 10),
      DirEntry(NameOther, TRUE, <<AssistantToolUse("s2")>>, 5, 12),
      DirEntry(NameThird, TRUE, <<LineGarbage>>, 10, 11),
      DirEntry(NameAgent, TRUE, <<LineUserText>>, 12, 12)>>

\* The entries of the pool at the positions of S, in the pool's order
RECURSIVE EntriesAt(_)
EntriesAt(S) ==
    IF S = {} THEN <<>>
    ELSE LET i == CHOOSE x \in S : \A y \in S : x <= y
         IN  <<EntryPool[i]>> \o EntriesAt(S \ {i})

EntryLists == {EntriesAt(S) : S \in {T \in SUBSET DOMAIN EntryPool : Cardinality(T) <= MaxFiles}}

\* The directory -a-b of ~/.claude/projects on a filesystem where /a exists
Projects ==
    [dirs : {{<<>>, <<CompA>>}}, dir_name : {DirNameProject}, entries : EntryLists,
     subagents : {[sid \in SessionIds |-> Nothing]}]

EmptyTracker == [sid \in SessionIds |-> None]

ScanIdle ==
    /\ agentProcesses = Nothing /\ project = Nothing /\ clock = StartNow
    /\ PREVIOUS_STATUS = EmptyTracker /\ scanned = Nothing /\ reported = EmptyTracker

ScanInit ==
    /\ agentProcesses \in ProcessLists /\ project \in Projects /\ clock = StartNow
    /\ PREVIOUS_STATUS = EmptyTracker /\ scanned = Nothing /\ reported = EmptyTracker

\* What the scans have reported, after a scan that returned sessions: an
\* id the scan produced has the status of the scan's last Session of that
\* id, every other id keeps what it had
reported_after(before, sessions) ==
    [sid \in SessionIds |->
        LET produced == {i \in DOMAIN sessions : sessions[i].id = sid}
        IN  IF produced = {} THEN before[sid]
            ELSE sessions[CHOOSE i \in produced : \A j \in produced : j <= i].status]

\* get_sessions_internal on the present processes, directory and clock;
\* read_dir lists the directory in either order
Scan ==
    /\ \E entries \in {project.entries, Reverse(project.entries)} :
       \E cwds \in {matching_cwds(agentProcesses, project.dirs, project.dir_name)} :
          IF cwds = {}
          THEN /\ scanned' = Some([now |-> clock, entries |-> entries, cwd |-> Nothing,
                                   previous |-> PREVIOUS_STATUS, sessions |-> <<>>])
               /\ UNCHANGED <<PREVIOUS_STATUS, reported>>
          ELSE \E cwd \in cwds :
               \E out \in {get_sessions_internal(agentProcesses, cwd, entries,
                               project.subagents, clock, PREVIOUS_STATUS)} :
                  /\ scanned' = Some([now |-> clock, entries |-> entries,
                                      cwd |-> Some(cwd), previous |-> PREVIOUS_STATUS,
                                      sessions |-> out.sessions])
                  /\ PREVIOUS_STATUS' = out.prev_status_map
                  /\ reported' = reported_after(reported, out.sessions)
    /\ UNCHANGED <<agentProcesses, project, clock, notScanVars>>

\* A second passes
Tick ==
    /\ clock < StartNow + MaxTicks
    /\ clock' = clock + 1
    /\ UNCHANGED <<agentProcesses, project, PREVIOUS_STATUS, scanned, reported, notScanVars>>

\* cleanup_stale_status_entries(active_session_ids)
CleanupStaleStatusEntries(active_session_ids) ==
    /\ PREVIOUS_STATUS' = [sid \in SessionIds |->
                              IF sid \in active_session_ids THEN PREVIOUS_STATUS[sid]
                              ELSE None]
    /\ reported' = [sid \in SessionIds |->
                       IF sid \in active_session_ids THEN reported[sid] ELSE None]
    /\ UNCHANGED <<agentProcesses, project, clock, scanned, notScanVars>>

(***************************************************************************)
(* The time matcher on its own: the processes of one project directory and *)
(* the recently active files it holds                                      *)
(***************************************************************************)
\* Pids of the processes, by position: rising or falling
MatchPids == {[i \in 1 .. MaxProcs |-> 10 + i], [i \in 1 .. MaxProcs |-> 20 - i]}
MatchProcesses ==
    {[i \in 1 .. n |-> AgentProcess(pids[i], 0, Some(PathProject), starts[i])] :
        <<n, pids, starts>> \in {<<n, pids, starts>> \in
            (1 .. MaxProcs) \X MatchPids \X [1 .. MaxProcs -> 0 .. MaxTime] :
                \A i \in n + 1 .. MaxProcs : starts[i] = 0}}
MatchNames == <<NamePrimary, NameOther, NameThird, NameNotes>>
MatchFiles ==
    {[i \in 1 .. n |-> DirEntry(MatchNames[i], TRUE, <<>>, NoTime, created[i])] :
        <<n, created>> \in {<<n, created>> \in
            (0 .. MaxFiles) \X [1 .. MaxFiles -> {NoTime} \cup (0 .. MaxTime)] :
                \A i \in n + 1 .. MaxFiles : created[i] = NoTime}}

MatchIdle ==
    /\ matchProcesses = <<>>
    /\ matchFiles = <<>>
    /\ matched = Nothing

MatchInit ==
    /\ matchProcesses \in MatchProcesses
    /\ matchFiles \in MatchFiles
    /\ matched = Nothing

\* One call of match_processes_to_files_by_time
Match ==
    /\ matched = Nothing
    /\ matched' = Some(match_processes_to_files_by_time(matchProcesses, matchFiles))
    /\ UNCHANGED <<matchProcesses, matchFiles, notMatchVars>>

(***************************************************************************)
(* The TTL caches of git.rs and config.rs, and the lookups they memoize    *)
(***************************************************************************)
\* Durations of the caches, in seconds
PrInfoTtl == 60
AheadBehindTtl == 30
ConfigTtl == 60

CacheEntry(value, inserted_at) == [value |-> value, inserted_at |-> inserted_at]
\* A HashMap without entries
EmptyMap == [key \in {} |-> Nothing]
\* git.rs: ttl is Nothing for a permanent cache, Some(seconds) otherwise
TtlCache_new(ttl) == [map |-> EmptyMap, ttl |-> ttl]
\* entry.inserted_at.elapsed()
elapsed(inserted_at, now) == now - inserted_at

\* TtlCache::get with the expiry test made at the boundary too
TtlCache_get_expires_early(cache, key, now) ==
    IF key \notin DOMAIN cache.map THEN Nothing
    ELSE IF cache.ttl # Nothing /\ elapsed(cache.map[key].inserted_at, now) >= cache.ttl[1]
         THEN Nothing
         ELSE Some(cache.map[key].value)
\* TtlCache::get with the expiry test made whatever the ttl
TtlCache_get_always_expires(cache, key, now) ==
    IF key \notin DOMAIN cache.map THEN Nothing
    ELSE IF elapsed(cache.map[key].inserted_at, now) > AheadBehindTtl
         THEN Nothing
         ELSE Some(cache.map[key].value)

\* git.rs TtlCache::get: Nothing, or Some(value) of a present entry not expired
TtlCache_get(cache, key, now) ==
    IF key \notin DOMAIN cache.map THEN Nothing
    ELSE IF cache.ttl # Nothing /\ elapsed(cache.map[key].inserted_at, now) > cache.ttl[1]
         THEN Nothing
         ELSE Some(cache.map[key].value)

\* config.rs TtlCache::get: the ttl is a plain Duration
ConfigCache_get(cache, key, now) ==
    IF key \notin DOMAIN cache.map THEN Nothing
    ELSE IF elapsed(cache.map[key].inserted_at, now) > cache.ttl
         THEN Nothing
         ELSE Some(cache.map[key].value)

\* TtlCache::insert (the same in both files)
TtlCache_insert(cache, key, value, now) ==
    [cache EXCEPT !.map = [k \in DOMAIN cache.map \cup {key} |->
                              IF k = key THEN CacheEntry(value, now) ELSE cache.map[k]]]

\* A retain that stores the surviving entries anew
retain_keys_reinserted(cache, active_keys) ==
    [cache EXCEPT !.map = [k \in DOMAIN cache.map \cap active_keys |->
                              CacheEntry(cache.map[k].value, 0)]]

\* TtlCache::retain_keys, and the map.retain of cleanup_links_cache
retain_keys(cache, active_keys) ==
    [cache EXCEPT !.map = [k \in DOMAIN cache.map \cap active_keys |-> cache.map[k]]]

\* The map.retain of the "path:branch" caches in cleanup_git_caches
retain_prefixed(cache, active_project_paths) ==
    [cache EXCEPT !.map = [k \in {k \in DOMAIN cache.map :
                                     \E p \in active_project_paths : starts_with(k, p)} |->
                              cache.map[k]]]

\* format!("{}:{}", project_path, branch)
cache_key(project_path, branch) == project_path \o <<":">> \o branch

\* The projects and the branch of the model
\* A project, and a project inside it
PathNested == PathProject \o <<"/", "a">>
CachePaths == {PathProject, PathNested}
BranchMain == <<"m">>
\* The projects whose transcript names a branch: the inner one
BranchedPaths == {PathNested}
\* What the external lookups can return (Option<T>: Nothing or Some)
StrRepoUrl == "https://github.com/u/r"
GithubUrls == {Nothing, Some(StrRepoUrl)}
PrInfo(url, number, state, ci_status) ==
    [url |-> url, number |-> number, state |-> state, ci_status |-> ci_status]
PrInfos == {Nothing, Some(PrInfo("https://github.com/u/r/pull/7", 7, "OPEN", Some("Success")))}
AheadBehinds == {Some(<<1, 0>>)}
ProjectConfig(links, session_links) == [links |-> links, session_links |-> session_links]
DefaultConfig == ProjectConfig(<<>>, <<>>)
Configs == {DefaultConfig}

\* The mark an operation leaves: the external lookup it made, if any
LookedUp(name, key, result) == Some([name |-> name, key |-> key, result |-> result])

\* Entries held by the caches and the tracker together
TotalEntries ==
    Cardinality(DOMAIN WORKTREE_CACHE.map) + Cardinality(DOMAIN GITHUB_URL_CACHE.map)
    + Cardinality(DOMAIN PR_INFO_CACHE.map) + Cardinality(DOMAIN AHEAD_BEHIND_CACHE.map)
    + Cardinality(DOMAIN CONFIG_CACHE.map)
    + Cardinality({sid \in SessionIds : PREVIOUS_STATUS[sid] # None})
\* The model holds MaxEntries entries at most
Room(cache, key) == key \in DOMAIN cache.map \/ TotalEntries < MaxEntries

CacheIdle ==
    /\ instant = 0
    /\ GH_AVAILABLE = TRUE
    /\ WORKTREE_CACHE = TtlCache_new(Nothing)
    /\ GITHUB_URL_CACHE = TtlCache_new(Nothing)
    /\ PR_INFO_CACHE = TtlCache_new(Some(PrInfoTtl))
    /\ AHEAD_BEHIND_CACHE = TtlCache_new(Some(AheadBehindTtl))
    /\ CONFIG_CACHE = [map |-> EmptyMap, ttl |-> ConfigTtl]
    /\ lookup = Nothing

\* The statics as constructed; gh --version has answered
CacheInit ==
    /\ instant = 0
    /\ GH_AVAILABLE \in BOOLEAN
    /\ WORKTREE_CACHE = TtlCache_new(Nothing)
    /\ GITHUB_URL_CACHE = TtlCache_new(Nothing)
    /\ PR_INFO_CACHE = TtlCache_new(Some(PrInfoTtl))
    /\ AHEAD_BEHIND_CACHE = TtlCache_new(Some(AheadBehindTtl))
    /\ CONFIG_CACHE = [map |-> EmptyMap, ttl |-> ConfigTtl]
    /\ lookup = Nothing

\* get_github_url(project_path)
GetGithubUrl(project_path) ==
    /\ Room(GITHUB_URL_CACHE, project_path)
    /\ IF TtlCache_get(GITHUB_URL_CACHE, project_path, instant) # Nothing
       THEN /\ lookup' = Nothing
            /\ UNCHANGED GITHUB_URL_CACHE
       ELSE \E fetched \in GithubUrls :
                /\ GITHUB_URL_CACHE' = TtlCache_insert(GITHUB_URL_CACHE, project_path, fetched, instant)
                /\ lookup' = LookedUp("github_url", project_path, fetched)
    /\ UNCHANGED <<instant, GH_AVAILABLE, WORKTREE_CACHE, PR_INFO_CACHE,
                   AHEAD_BEHIND_CACHE, CONFIG_CACHE, notCacheVars>>

\* is_worktree(project_path)
IsWorktree(project_path) ==
    /\ Room(WORKTREE_CACHE, project_path)
    /\ IF TtlCache_get(WORKTREE_CACHE, project_path, instant) # Nothing
       THEN /\ lookup' = Nothing
            /\ UNCHANGED WORKTREE_CACHE
       ELSE \E fetched \in BOOLEAN :
                /\ WORKTREE_CACHE' = TtlCache_insert(WORKTREE_CACHE, project_path, fetched, instant)
                /\ lookup' = LookedUp("worktree", project_path, fetched)
    /\ UNCHANGED <<instant, GH_AVAILABLE, GITHUB_URL_CACHE, PR_INFO_CACHE,
                   AHEAD_BEHIND_CACHE, CONFIG_CACHE, notCacheVars>>

\* get_ahead_behind(project_path, branch)
GetAheadBehind(project_path) ==
    /\ Room(AHEAD_BEHIND_CACHE, cache_key(project_path, BranchMain))
    /\ IF TtlCache_get(AHEAD_BEHIND_CACHE, cache_key(project_path, BranchMain), instant) # Nothing
       THEN /\ lookup' = Nothing
            /\ UNCHANGED AHEAD_BEHIND_CACHE
       ELSE \E fetched \in AheadBehinds :
                /\ AHEAD_BEHIND_CACHE' = TtlCache_insert(AHEAD_BEHIND_CACHE, cache_key(project_path, BranchMain), fetched, instant)
                /\ lookup' = LookedUp("ahead_behind", cache_key(project_path, BranchMain), fetched)
    /\ UNCHANGED <<instant, GH_AVAILABLE, WORKTREE_CACHE, GITHUB_URL_CACHE,
                   PR_INFO_CACHE, CONFIG_CACHE, notCacheVars>>

\* get_pr_info(project_path, branch): nothing is read or cached without gh
GetPrInfo(project_path) ==
    IF ~GH_AVAILABLE
    THEN /\ lookup' = Nothing
         /\ UNCHANGED <<instant, GH_AVAILABLE, WORKTREE_CACHE, GITHUB_URL_CACHE,
                        PR_INFO_CACHE, AHEAD_BEHIND_CACHE, CONFIG_CACHE, notCacheVars>>
    ELSE /\ Room(PR_INFO_CACHE, cache_key(project_path, BranchMain))
         /\ IF TtlCache_get(PR_INFO_CACHE, cache_key(project_path, BranchMain), instant) # Nothing
            THEN /\ lookup' = Nothing
                 /\ UNCHANGED PR_INFO_CACHE
            ELSE \E fetched \in PrInfos :
                     /\ PR_INFO_CACHE' = TtlCache_insert(PR_INFO_CACHE, cache_key(project_path, BranchMain), fetched, instant)
                     /\ lookup' = LookedUp("pr_info", cache_key(project_path, BranchMain), fetched)
         /\ UNCHANGED <<instant, GH_AVAILABLE, WORKTREE_CACHE, GITHUB_URL_CACHE,
                        AHEAD_BEHIND_CACHE, CONFIG_CACHE, notCacheVars>>

\* get_config(project_path), with no writer at work
GetConfig(project_path) ==
    /\ Room(CONFIG_CACHE, project_path)
    /\ IF ConfigCache_get(CONFIG_CACHE, project_path, instant) # Nothing
       THEN /\ lookup' = Nothing
            /\ UNCHANGED CONFIG_CACHE
       ELSE \E fetched \in Configs :
                /\ CONFIG_CACHE' = TtlCache_insert(CONFIG_CACHE, project_path, fetched, instant)
                /\ lookup' = LookedUp("config", project_path, fetched)
    /\ UNCHANGED <<instant, GH_AVAILABLE, WORKTREE_CACHE, GITHUB_URL_CACHE,
                   PR_INFO_CACHE, AHEAD_BEHIND_CACHE, notCacheVars>>

\* cleanup_git_caches(active_project_paths)
CleanupGitCaches(active_project_paths) ==
    /\ WORKTREE_CACHE' = retain_keys(WORKTREE_CACHE, active_project_paths)
    /\ GITHUB_URL_CACHE' = retain_keys(GITHUB_URL_CACHE, active_project_paths)
    /\ PR_INFO_CACHE' = retain_prefixed(PR_INFO_CACHE, active_project_paths)
    /\ AHEAD_BEHIND_CACHE' = retain_prefixed(AHEAD_BEHIND_CACHE, active_project_paths)
    /\ lookup' = Nothing
    /\ UNCHANGED <<instant, GH_AVAILABLE, CONFIG_CACHE, notCacheVars>>

\* cleanup_links_cache(active_project_paths)
CleanupLinksCache(active_project_paths) ==
    /\ CONFIG_CACHE' = retain_keys(CONFIG_CACHE, active_project_paths)
    /\ lookup' = Nothing
    /\ UNCHANGED <<instant, GH_AVAILABLE, WORKTREE_CACHE, GITHUB_URL_CACHE,
                   PR_INFO_CACHE, AHEAD_BEHIND_CACHE, notCacheVars>>

\* Time passes: up to a cache's duration, or just beyond it
AdvanceSteps == {AheadBehindTtl, AheadBehindTtl + 1}
Advance ==
    \E d \in AdvanceSteps :
        /\ instant + d <= MaxInstant
        /\ instant' = instant + d
        /\ lookup' = Nothing
        /\ UNCHANGED <<GH_AVAILABLE, WORKTREE_CACHE, GITHUB_URL_CACHE, PR_INFO_CACHE,
                       AHEAD_BEHIND_CACHE, CONFIG_CACHE, notCacheVars>>

\* Trackers a scan can have left behind
CacheTrackers ==
    {EmptyTracker,
     [sid \in SessionIds |-> IF sid = "s1" THEN "Waiting" ELSE None],
     [sid \in SessionIds |-> IF sid = "s1" THEN "Waiting" ELSE "Idle"]}

(***************************************************************************)
(* The handlers as threads run them: one step per lock operation, map      *)
(* operation or I/O. The config handlers carry their data; of the others   *)
(* the locking is followed and what a map read finds is left open.         *)
(***************************************************************************)
Threads == {"scan", "command"}
NoThread == "none"
LockNames ==
    {"PREVIOUS_STATUS", "SYSTEM", "WORKTREE_CACHE", "GITHUB_URL_CACHE", "PR_INFO_CACHE",
     "AHEAD_BEHIND_CACHE", "CONFIG_CACHE"}

\* The steps of a handler
Lock(name) == [kind |-> "lock", on |-> name]
Unlock(name) == [kind |-> "unlock", on |-> name]
MapRead(name) == [kind |-> "read", on |-> name]
MapWrite(name) == [kind |-> "write", on |-> name]
IO(what) == [kind |-> "io", on |-> what]

\* A getter: look the key up under the lock, return on a hit; else do the
\* lookup with the lock released and store the result under the lock
getter_steps(name, what) ==
    <<Lock(name), MapRead(name), Unlock(name), IO(what), Lock(name), MapWrite(name),
      Unlock(name)>>
\* Link writers that read the file before they take the lock
setter_steps_read_unlocked ==
    <<IO("read_config"), Lock("CONFIG_CACHE"), IO("write_config"), MapWrite("CONFIG_CACHE"),
      Unlock("CONFIG_CACHE")>>
\* set_project_links and set_session_links: the guard lives to the return
setter_steps ==
    <<Lock("CONFIG_CACHE"), IO("read_config"), IO("write_config"), MapWrite("CONFIG_CACHE"),
      Unlock("CONFIG_CACHE")>>
\* A retain whose guard is kept alive after the block
retain_steps_guard_kept(name) == <<Lock(name), MapWrite(name)>>
\* if let Ok(mut cache) = X.lock() { retain }
retain_steps(name) == <<Lock(name), MapWrite(name), Unlock(name)>>

\* The steps of each handler, in program order
Program(op) ==
    CASE op = "get_github_url" -> getter_steps("GITHUB_URL_CACHE", "git remote get-url")
      [] op = "get_config" -> getter_steps("CONFIG_CACHE", "read_config")
      [] op = "set_project_links" -> setter_steps
      [] op = "set_session_links" -> setter_steps
      [] op = "cleanup_links_cache" -> retain_steps("CONFIG_CACHE")
      [] op = "cleanup_git_caches" ->
            retain_steps("WORKTREE_CACHE") \o retain_steps("GITHUB_URL_CACHE")
            \o retain_steps("PR_INFO_CACHE") \o retain_steps("AHEAD_BEHIND_CACHE")
      [] op = "find_claude_processes" ->
            <<Lock("SYSTEM"), IO("refresh_processes_specifics"), MapRead("SYSTEM"),
              Unlock("SYSTEM")>>
      [] op = "track_status" ->
            <<Lock("PREVIOUS_STATUS"), MapRead("PREVIOUS_STATUS"),
              MapWrite("PREVIOUS_STATUS"), Unlock("PREVIOUS_STATUS")>>
      [] op = "cleanup_stale_status_entries" -> retain_steps("PREVIOUS_STATUS")
Getters == {"get_github_url", "get_config"}
Setters == {"set_project_links", "set_session_links"}
Handlers ==
    Getters \cup Setters \cup
    {"cleanup_links_cache", "cleanup_git_caches", "find_claude_processes", "track_status",
     "cleanup_stale_status_entries"}

\* The arguments a handler is called with, besides the project /a/b
LinksDocs == <<"docs">>
LinksNote == <<"note">>
ArgsOf(op) ==
    CASE op = "set_project_links" -> {LinksDocs}
      [] op = "set_session_links" -> {LinksNote, <<>>}
      [] op = "cleanup_links_cache" -> {{}, {PathProject}}
      [] OTHER -> {<<>>}

\* A thread: the handler it runs, the step it is about to take, the argument
\* and the value it holds (what the map read found, then what was looked up)
Thread(op, at, arg, local) == [op |-> op, at |-> at, arg |-> arg, local |-> local]
IdleThread == Thread("idle", 0, <<>>, Nothing)
Running(t) == threads[t].op # "idle"
NextStep(t) == Program(threads[t].op)[threads[t].at]
\* The thread with the step taken; the handler returns after its last step
Stepped(th, local) ==
    IF th.at = Len(Program(th.op)) THEN IdleThread
    ELSE Thread(th.op, th.at + 1, th.arg, local)

\* config.rs read_config: the default config for a missing or malformed file
read_config(file) == IF file = Nothing THEN DefaultConfig ELSE file[1]
\* config.links = links
with_links(config, links) == ProjectConfig(links, config.session_links)
\* session_links.remove(session_id) for no links, insert otherwise
with_session_links(config, session_id, links) ==
    ProjectConfig(config.links,
        IF links = <<>>
        THEN [sid \in DOMAIN config.session_links \ {session_id} |-> config.session_links[sid]]
        ELSE [sid \in DOMAIN config.session_links \cup {session_id} |->
                 IF sid = session_id THEN links ELSE config.session_links[sid]])
\* TtlCache::invalidate
invalidate(cache, key) ==
    [cache EXCEPT !.map = [k \in DOMAIN cache.map \ {key} |-> cache.map[k]]]

\* What the files can hold before any write
LinksOld == <<"old">>
ConfigFiles == {Nothing, Some(ProjectConfig(LinksOld, EmptyMap))}

otherCacheVars ==
    <<instant, GH_AVAILABLE, WORKTREE_CACHE, GITHUB_URL_CACHE, PR_INFO_CACHE,
      AHEAD_BEHIND_CACHE, lookup>>
notThreadCacheVars == <<statusVars, processVars, codecVars, findVars, scanVars, matchVars, policyVars>>
notPolicyVars == <<statusVars, processVars, codecVars, findVars, scanVars, matchVars, cacheVars, threadVars>>

\* What the callers have seen of the config: no write has returned and no
\* get_config has been called since
observedVars == <<linksSet, startedAfter, configReturned>>
NothingObserved ==
    /\ linksSet = Nothing
    /\ startedAfter = [t \in Threads |-> FALSE]
    /\ configReturned = [t \in Threads |-> Nothing]
    /\ lastOk = [t \in Threads |-> Nothing]

ThreadIdle ==
    /\ threads = [t \in Threads |-> IdleThread]
    /\ lockHolder = [name \in LockNames |-> NoThread]
    /\ configFile = Nothing
    /\ NothingObserved

ThreadInit ==
    /\ threads = [t \in Threads |-> IdleThread]
    /\ lockHolder = [name \in LockNames |-> NoThread]
    /\ configFile \in ConfigFiles
    /\ NothingObserved

\* The link write thread t returns Ok from: the handler, its links, and
\* whether the other link write was under way at that moment
OkWrite(t) ==
    [op |-> threads[t].op, links |-> threads[t].arg,
     overlapped |-> \E u \in Threads \ {t} : threads[u].op \in Setters]

\* A thread calls a handler
Call(t) ==
    /\ ~Running(t)
    /\ \E op \in Handlers : \E arg \in ArgsOf(op) :
          /\ threads' = [threads EXCEPT ![t] = Thread(op, 1, arg, Nothing)]
          /\ startedAfter' = [startedAfter EXCEPT ![t] = op = "get_config" /\ linksSet # Nothing]
    /\ configReturned' = [configReturned EXCEPT ![t] = Nothing]
    /\ lastOk' = [lastOk EXCEPT ![t] = Nothing]
    /\ UNCHANGED <<lockHolder, configFile, linksSet, CONFIG_CACHE, otherCacheVars, notThreadCacheVars>>

\* X.lock(): waits while another thread holds the mutex
Acquire(t) ==
    /\ Running(t)
    /\ NextStep(t).kind = "lock"
    /\ lockHolder[NextStep(t).on] = NoThread
    /\ lockHolder' = [lockHolder EXCEPT ![NextStep(t).on] = t]
    /\ threads' = [threads EXCEPT ![t] = Stepped(threads[t], threads[t].local)]
    /\ UNCHANGED <<configFile, observedVars, lastOk, CONFIG_CACHE, otherCacheVars, notThreadCacheVars>>

\* The guard goes out of scope; a getter that found the key returns here
Release(t) ==
    /\ Running(t)
    /\ NextStep(t).kind = "unlock"
    /\ lockHolder' = [lockHolder EXCEPT ![NextStep(t).on] = NoThread]
    /\ threads' = [threads EXCEPT ![t] =
                      IF threads[t].op \in Getters /\ threads[t].local # Nothing
                      THEN IdleThread
                      ELSE Stepped(threads[t], threads[t].local)]
    /\ IF threads[t].op = "get_config" /\ threads[t].local # Nothing
       THEN /\ configReturned' =
                  [configReturned EXCEPT ![t] = IF startedAfter[t]
                                                THEN Some(threads[t].local[1].links)
                                                ELSE Nothing]
            /\ startedAfter' = [startedAfter EXCEPT ![t] = FALSE]
            /\ UNCHANGED linksSet
       ELSE IF threads[t].op = "set_project_links"
            THEN linksSet' = Some(threads[t].arg) /\ UNCHANGED <<startedAfter, configReturned>>
            ELSE UNCHANGED observedVars
    /\ lastOk' = IF threads[t].op \in Setters
                 THEN [lastOk EXCEPT ![t] = Some(OkWrite(t))]
                 ELSE lastOk
    /\ UNCHANGED <<configFile, CONFIG_CACHE, otherCacheVars, notThreadCacheVars>>

\* cache.get(key), system.processes(), prev_status_map.get(id)
ReadMap(t) ==
    /\ Running(t)
    /\ NextStep(t).kind = "read"
    /\ \E found_value \in IF threads[t].op = "get_config"
                         THEN {ConfigCache_get(CONFIG_CACHE, PathProject, instant)}
                         ELSE {Nothing, Some("cached")} :
          threads' = [threads EXCEPT ![t] = Stepped(threads[t], found_value)]
    /\ UNCHANGED <<lockHolder, configFile, observedVars, lastOk, CONFIG_CACHE, otherCacheVars, notThreadCacheVars>>

\* cache.insert, cache.invalidate, map.retain, prev_status_map.insert
WriteMap(t) ==
    /\ Running(t)
    /\ NextStep(t).kind = "write"
    /\ CONFIG_CACHE' =
          CASE threads[t].op = "get_config" ->
                  TtlCache_insert(CONFIG_CACHE, PathProject, threads[t].local[1], instant)
            [] threads[t].op \in Setters -> invalidate(CONFIG_CACHE, PathProject)
            [] threads[t].op = "cleanup_links_cache" -> retain_keys(CONFIG_CACHE, threads[t].arg)
            [] OTHER -> CONFIG_CACHE
    /\ threads' = [threads EXCEPT ![t] = Stepped(threads[t], threads[t].local)]
    /\ UNCHANGED <<lockHolder, configFile, observedVars, lastOk, otherCacheVars, notThreadCacheVars>>

\* The config a setter writes: what it read, with its argument put in
written_config(th) ==
    IF th.op = "set_project_links" THEN with_links(th.local[1], th.arg)
    ELSE with_session_links(th.local[1], "s1", th.arg)

\* File and external-command I/O: read_config, write_config, git, the process
\* table. A write_config that fails makes the setter return Err, which drops
\* the guard.
PerformIO(t) ==
    /\ Running(t)
    /\ NextStep(t).kind = "io"
    /\ \/ /\ NextStep(t).on = "read_config"
          /\ threads' = [threads EXCEPT ![t] =
                            Stepped(threads[t], Some(read_config(configFile)))]
          /\ UNCHANGED <<lockHolder, configFile, observedVars, lastOk>>
       \/ /\ NextStep(t).on = "write_config"
          /\ configFile' = Some(written_config(threads[t]))
          /\ threads' = [threads EXCEPT ![t] = Stepped(threads[t], threads[t].local)]
          /\ linksSet' = Nothing
          /\ startedAfter' = [u \in Threads |-> FALSE]
          /\ configReturned' = [u \in Threads |-> Nothing]
          /\ lastOk' = [u \in Threads |->
                           IF lastOk[u] # Nothing /\ lastOk[u][1].op = threads[t].op
                           THEN Nothing ELSE lastOk[u]]
          /\ UNCHANGED lockHolder
       \/ /\ NextStep(t).on = "write_config"
          /\ threads' = [threads EXCEPT ![t] = IdleThread]
          /\ lockHolder' = [lockHolder EXCEPT !["CONFIG_CACHE"] = NoThread]
          /\ UNCHANGED <<configFile, observedVars, lastOk>>
       \/ /\ NextStep(t).on \notin {"read_config", "write_config"}
          /\ threads' = [threads EXCEPT ![t] = Stepped(threads[t], Some("looked up"))]
          /\ UNCHANGED <<lockHolder, configFile, observedVars, lastOk>>
    /\ UNCHANGED <<CONFIG_CACHE, otherCacheVars, notThreadCacheVars>>

(***************************************************************************)
(* agent/opencode.rs: the status of an OpenCode session, beside the status *)
(* determine_status gives a Claude session in the same situation           *)
(***************************************************************************)
\* if process.cpu_usage > 5.0
OpenCodeCpuActive == 5

\* A row of the messages table: finished_at is Nothing or Some(time)
MessageRow(role, finished_at) == [role |-> role, finished_at |-> finished_at]

\* The status of parse_opencode_session; last_msg is Nothing when the query
\* for the last message fails
opencode_status(last_msg, cpu_usage) ==
    IF last_msg = Nothing THEN "Idle"
    ELSE IF cpu_usage > OpenCodeCpuActive THEN "Processing"
    ELSE IF last_msg[1].role = "assistant" /\ last_msg[1].finished_at # Nothing THEN "Waiting"
    ELSE IF last_msg[1].role = "user" THEN "Processing"
    ELSE "Idle"

\* db: [openable, session, last_msg], session the id of the most recent
\* session or Nothing, last_msg its newest message or Nothing
parse_opencode_session(db, process) ==
    IF ~db.openable \/ db.session = Nothing THEN Nothing
    ELSE Some([id |-> db.session[1], status |-> opencode_status(db.last_msg, process.cpu_usage),
               last_message_role |-> None, pid |-> process.pid,
               cpu_usage |-> process.cpu_usage, active_subagent_count |-> 0])

\* An agent at rest or at work: its newest message, whether the message is
\* finished and invokes a tool, the age of its storage and its CPU usage
AgentViews ==
    [role : {"assistant", "user", "system"}, finished : BOOLEAN, has_tool_use : BOOLEAN,
     file_age_secs : FileAges, cpu_usage : CpuUsages]

\* The agent's storage as OpenCode keeps it
opencode_db(view) ==
    [openable |-> TRUE, session |-> Some("s1"),
     last_msg |-> Some(MessageRow(view.role, IF view.finished THEN Some(0) ELSE Nothing))]

PolicyIdle == agentView = Nothing /\ claudeStatus = NotRun /\ opencodeStatus = NotRun

PolicyInit == agentView \in AgentViews /\ claudeStatus = NotRun /\ opencodeStatus = NotRun

\* The Claude path: determine_status on the agent's newest message
ClaudePath ==
    /\ claudeStatus = NotRun
    /\ claudeStatus' = determine_status(agentView.role, agentView.has_tool_use, FALSE, FALSE,
                                        FALSE, agentView.file_age_secs, agentView.cpu_usage)
    /\ UNCHANGED <<agentView, opencodeStatus, notPolicyVars>>

\* The OpenCode path: parse_opencode_session on the agent's database
OpenCodePath ==
    /\ opencodeStatus = NotRun
    /\ opencodeStatus' =
          parse_opencode_session(opencode_db(agentView),
              AgentProcess(11, agentView.cpu_usage, Some(PathProject), 10))[1].status
    /\ UNCHANGED <<agentView, claudeStatus, notPolicyVars>>

(***************************************************************************)
(* Specifications                                                          *)
(***************************************************************************)
InitStatus == StatusInit /\ ProcessIdle /\ CodecIdle /\ FindIdle /\ ScanIdle /\ MatchIdle /\ CacheIdle /\ ThreadIdle /\ PolicyIdle

NextStatus == DetermineStatus

SpecStatus == InitStatus /\ [][NextStatus]_vars

InitProcessScan == ProcessInit /\ StatusIdle /\ CodecIdle /\ FindIdle /\ ScanIdle /\ MatchIdle /\ CacheIdle /\ ThreadIdle /\ PolicyIdle

NextProcess == CheckOrphaned \/ FindClaudeProcesses

SpecProcess == InitProcessScan /\ [][NextProcess]_vars

InitCodec == CodecInit /\ StatusIdle /\ ProcessIdle /\ FindIdle /\ ScanIdle /\ MatchIdle /\ CacheIdle /\ ThreadIdle /\ PolicyIdle

NextCodec == Encode \/ Decode

SpecCodec == InitCodec /\ [][NextCodec]_vars

InitFind == FindInit /\ StatusIdle /\ ProcessIdle /\ CodecIdle /\ ScanIdle /\ MatchIdle /\ CacheIdle /\ ThreadIdle /\ PolicyIdle

NextFind == AppendLine \/ FindSession

SpecFind == InitFind /\ [][NextFind]_vars

\* The transcript on its own: no sub-agents and no other file in the
\* directory, so that the Session found is the one parse_session_file gives
ParseEnvs == {env \in FindEnvs : env.dir = Nothing /\ env.listing = Listing(<<>>, <<>>, 1)}
InitParse ==
    /\ StatusIdle /\ ProcessIdle /\ CodecIdle /\ ScanIdle /\ MatchIdle /\ CacheIdle
    /\ ThreadIdle /\ PolicyIdle
    /\ transcript = <<>> /\ findEnv \in ParseEnvs /\ found = Nothing
NextParse == AppendLine \/ AppendProgress \/ FindSession
SpecParse == InitParse /\ [][NextParse]_vars

\* Transcripts whose lines differ in their usage data: each count absent,
\* zero, one token, just below the budget or the whole budget
TokenUsages ==
    [input_tokens : {Nothing, Some(0), Some(1), Some(ContextBudget)},
     cache_creation_input_tokens : {Nothing, Some(ContextBudget - 1)},
     cache_read_input_tokens : {Nothing, Some(0), Some(1)}]
LineWithUsage(usage) ==
    JsonlMessage("s1", "assistant", None, FALSE, "assistant",
                 Arr(<<Block("text", Some(<<"o", "k">>))>>), Some(usage))
UsagePool ==
    {LineWithUsage(usage) : usage \in TokenUsages} \cup {LineGarbage, LineUserText, LineThinking}
AppendUsageLine ==
    /\ Len(transcript) < MaxLines
    /\ \E line \in UsagePool : transcript' = Append(transcript, line)
    /\ found' = Nothing
    /\ UNCHANGED <<findEnv, notFindVars>>
UsageEnvs == {env \in ParseEnvs : env.stat.age = 8 /\ env.cpu_usage = CpuActive}
InitUsage ==
    /\ StatusIdle /\ ProcessIdle /\ CodecIdle /\ ScanIdle /\ MatchIdle /\ CacheIdle
    /\ ThreadIdle /\ PolicyIdle
    /\ transcript = <<>> /\ findEnv \in UsageEnvs /\ found = Nothing
NextUsage == AppendUsageLine \/ FindSession
SpecUsage == InitUsage /\ [][NextUsage]_vars

\* Transcripts of user messages whose text is or is not a local command:
\* bare, padded, with arguments, glued to other text, inside a command-name
\* wrapper (closed, padded, with arguments, unknown, never closed) and the
\* two output tags, at the start and later in the text
TextClear == <<"/", "c", "l", "e", "a", "r">>
TextClearPadded == <<" ", " ", "/", "c", "l", "e", "a", "r", " ", " ">>
TextModelArgs == <<"/", "m", "o", "d", "e", "l", " ", "s", "o", "n", "n", "e", "t">>
TextClearGlued == <<"/", "c", "l", "e", "a", "r", "x">>
TextCustom == <<"/", "f", "i", "x", " ", "t", "h", "e", " ", "b", "u", "g">>
TextLateCommand == <<"x", " ", "/", "v", "i", "m">>
TextPlain == <<"h", "i">>
TextEmpty == <<>>
TextWrappedClear == <<"<", "c", "o", "m", "m", "a", "n", "d", "-", "n", "a", "m", "e", ">", "/", "c", "l", "e", "a", "r", "<", "/", "c", "o", "m", "m", "a", "n", "d", "-", "n", "a", "m", "e", ">", " ", "<", "c", "o", "m", "m", "a", "n", "d", "-", "m", "e", "s", "s", "a", "g", "e", ">", "c", "l", "e", "a", "r", "<", "/", "c", "o", "m", "m", "a", "n", "d", "-", "m", "e", "s", "s", "a", "g", "e", ">">>
TextWrappedPadded == <<"<", "c", "o", "m", "m", "a", "n", "d", "-", "n", "a", "m", "e", ">", " ", "/", "v", "i", "m", " ", "<", "/", "c", "o", "m", "m", "a", "n", "d", "-", "n", "a", "m", "e", ">">>
TextWrappedArgs == <<"<", "c", "o", "m", "m", "a", "n", "d", "-", "n", "a", "m", "e", ">", "/", "m", "o", "d", "e", "l", " ", "o", "p", "u", "s", "<", "/", "c", "o", "m", "m", "a", "n", "d", "-", "n", "a", "m", "e", ">">>
TextWrappedCustom == <<"<", "c", "o", "m", "m", "a", "n", "d", "-", "n", "a", "m", "e", ">", "/", "f", "i", "x", "<", "/", "c", "o", "m", "m", "a", "n", "d", "-", "n", "a", "m", "e", ">", "/", "c", "l", "e", "a", "r">>
TextWrappedOpen == <<"<", "c", "o", "m", "m", "a", "n", "d", "-", "n", "a", "m", "e", ">", "/", "c", "o", "s", "t">>
TextStdout == <<" ", "<", "l", "o", "c", "a", "l", "-", "c", "o", "m", "m", "a", "n", "d", "-", "s", "t", "d", "o", "u", "t", ">", "o", "k", "<", "/", "l", "o", "c", "a", "l", "-", "c", "o", "m", "m", "a", "n", "d", "-", "s", "t", "d", "o", "u", "t", ">">>
TextCaveat == <<"<", "l", "o", "c", "a", "l", "-", "c", "o", "m", "m", "a", "n", "d", "-", "c", "a", "v", "e", "a", "t", ">", "c">>
TextLateTag == <<"x", "<", "l", "o", "c", "a", "l", "-", "c", "o", "m", "m", "a", "n", "d", "-", "s", "t", "d", "o", "u", "t", ">">>
CommandTexts ==
    {TextClear, TextClearPadded, TextModelArgs, TextClearGlued, TextCustom, TextLateCommand, TextPlain,
     TextEmpty, TextWrappedClear, TextWrappedPadded, TextWrappedArgs, TextWrappedCustom,
     TextWrappedOpen, TextStdout, TextCaveat, TextLateTag}
LineUserSays(text) == JsonlMessage("s1", "user", None, FALSE, "user", Str(text), Nothing)
LineUserBlock(text) ==
    JsonlMessage("s1", "user", None, FALSE, "user", Arr(<<Block("text", Some(text))>>), Nothing)
CommandPool ==
    {LineUserSays(text) : text \in CommandTexts}
        \cup {LineUserBlock(TextClear), LineUserBlock(TextCustom), LineBoundary, LineThinking}
AppendCommandLine ==
    /\ Len(transcript) < MaxLines
    /\ \E line \in CommandPool : transcript' = Append(transcript, line)
    /\ found' = Nothing
    /\ UNCHANGED <<findEnv, notFindVars>>
InitCommand ==
    /\ StatusIdle /\ ProcessIdle /\ CodecIdle /\ ScanIdle /\ MatchIdle /\ CacheIdle
    /\ ThreadIdle /\ PolicyIdle
    /\ transcript = <<>> /\ findEnv \in ParseEnvs /\ found = Nothing
NextCommand == AppendCommandLine \/ FindSession
SpecCommand == InitCommand /\ [][NextCommand]_vars

\* A project that has gone quiet: the transcript is as the agent left it, no
\* file of the project is written any more, the CPU is at 5 percent, time
\* passes and the scans go on. An age is followed up to the longest window
\* the engine looks at (the 30 s of the sub-agent files); from there on no
\* comparison in the code can tell it from an older one.
QuietLines == {LineAssistantText, LineAssistantToolUse, LineThinking, LineBoundary, LineUserText}
QuietTranscripts == UNION {[1 .. n -> QuietLines] : n \in 0 .. MaxLines}
QuietListings ==
    {Listing(<<>>, <<>>, 1),
     Listing(<<>>, <<FileView(NameOther, TRUE, <<LineUserText>>, 9)>>, 1),
     Listing(<<>>, <<FileView(NameOther, TRUE, <<LineAssistantToolUse>>, 9)>>, 1)}
QuietEnvs ==
    {env \in FindEnvs : /\ env.stat.readable /\ env.stat.age \in {NoAge, 2}
                        /\ env.cpu_usage = CpuActive
                        /\ env.listing \in QuietListings}
\* An age one second later
age_after(age) ==
    IF age = NoAge \/ age >= SubagentActiveSecs THEN age ELSE age + 1
files_after(files) ==
    [i \in DOMAIN files |-> FileView(files[i].path, files[i].readable, files[i].lines,
                                      age_after(files[i].age))]
env_after(env) ==
    [stat |-> [age |-> age_after(env.stat.age), readable |-> env.stat.readable],
     cpu_usage |-> env.cpu_usage,
     dir |-> IF env.dir = Nothing THEN Nothing
             ELSE Some([i \in DOMAIN env.dir[1] |->
                          [name |-> env.dir[1][i].name, age |-> age_after(env.dir[1][i].age)]]),
     listing |-> Listing(files_after(env.listing.before), files_after(env.listing.after),
                         env.listing.assigned_count)]
\* A second passes and nothing is written
Elapse ==
    /\ env_after(findEnv) # findEnv
    /\ findEnv' = env_after(findEnv)
    /\ UNCHANGED <<transcript, found, notFindVars>>
InitQuiet ==
    /\ StatusIdle /\ ProcessIdle /\ CodecIdle /\ ScanIdle /\ MatchIdle /\ CacheIdle
    /\ ThreadIdle /\ PolicyIdle
    /\ transcript \in QuietTranscripts /\ findEnv \in QuietEnvs /\ found = Nothing
NextQuiet == Elapse \/ FindSession
\* The last report is what a scan would report now: no FindSession step
\* would change the state
ReportIsCurrent ==
    found = Some(find_session_for_process(jsonl_files_now, subagents_now,
                     AgentProcess(11, findEnv.cpu_usage, Some(PathProject), 10),
                     index_now, findEnv.listing.assigned_count))
\* Time passes and the scan is repeated for ever. The second condition is
\* WF_vars(FindSession) with ENABLED <<FindSession>>_vars written out as
\* ~ReportIsCurrent.
SpecQuiet ==
    InitQuiet /\ [][NextQuiet]_vars /\ WF_vars(Elapse) /\ []<>ReportIsCurrent

InitScan == ScanInit /\ StatusIdle /\ ProcessIdle /\ CodecIdle /\ FindIdle /\ MatchIdle /\ CacheIdle /\ ThreadIdle /\ PolicyIdle

NextScan ==
    \/ Scan
    \/ Tick
    \/ \E active_session_ids \in SUBSET SessionIds :
          CleanupStaleStatusEntries(active_session_ids)

SpecScan == InitScan /\ [][NextScan]_vars

\* The scan of a directory that holds every entry of the pool, so that two
\* processes find three transcripts
FullProjects ==
    [dirs : {{<<>>, <<CompA>>}}, dir_name : {DirNameProject},
     entries : {EntryPool, Reverse(EntryPool)}, subagents : {[sid \in SessionIds |-> Nothing]}]
InitFullScan ==
    /\ StatusIdle /\ ProcessIdle /\ CodecIdle /\ FindIdle /\ MatchIdle /\ CacheIdle
    /\ ThreadIdle /\ PolicyIdle
    /\ agentProcesses \in ProcessLists /\ project \in FullProjects /\ clock = StartNow
    /\ PREVIOUS_STATUS = EmptyTracker /\ scanned = Nothing /\ reported = EmptyTracker
SpecFullScan == InitFullScan /\ [][NextScan]_vars

InitMatch == StatusIdle /\ ProcessIdle /\ CodecIdle /\ FindIdle /\ ScanIdle /\ MatchInit /\ CacheIdle /\ ThreadIdle /\ PolicyIdle
NextMatch == Match
SpecMatch == InitMatch /\ [][NextMatch]_vars

\* The caches and the tracker between scans: lookups, cleanups and time
InitCache ==
    /\ StatusIdle /\ ProcessIdle /\ CodecIdle /\ FindIdle /\ MatchIdle /\ CacheInit /\ ThreadIdle /\ PolicyIdle
    /\ agentProcesses = Nothing /\ project = Nothing /\ clock = StartNow /\ scanned = Nothing
    /\ PREVIOUS_STATUS \in CacheTrackers /\ reported = PREVIOUS_STATUS
NextCache ==
    \/ \E project_path \in CachePaths : GetGithubUrl(project_path)
    \/ \E project_path \in CachePaths : IsWorktree(project_path)
    \/ \E project_path \in BranchedPaths : GetAheadBehind(project_path)
    \/ \E project_path \in BranchedPaths : GetPrInfo(project_path)
    \/ \E project_path \in CachePaths : GetConfig(project_path)
    \/ \E active_project_paths \in SUBSET CachePaths : CleanupGitCaches(active_project_paths)
    \/ \E active_project_paths \in SUBSET CachePaths : CleanupLinksCache(active_project_paths)
    \/ \E active_session_ids \in SUBSET SessionIds :
          CleanupStaleStatusEntries(active_session_ids)
    \/ Advance
SpecCache == InitCache /\ [][NextCache]_vars
\* Scans recur: every active project is looked up again and again, and time passes
SpecCacheFair ==
    /\ SpecCache
    /\ \A project_path \in CachePaths : WF_vars(GetGithubUrl(project_path))
    /\ \A project_path \in BranchedPaths : WF_vars(GetPrInfo(project_path))
    /\ WF_vars(Advance)

\* Two threads run handlers side by side
InitThreads ==
    /\ StatusIdle /\ ProcessIdle /\ CodecIdle /\ FindIdle /\ ScanIdle /\ MatchIdle /\ PolicyIdle
    /\ CacheIdle /\ ThreadInit
NextThreads ==
    \E t \in Threads :
        \/ Call(t)
        \/ Acquire(t)
        \/ Release(t)
        \/ ReadMap(t)
        \/ WriteMap(t)
        \/ PerformIO(t)
SpecThreads == InitThreads /\ [][NextThreads]_vars
\* A thread that can take a step of its handler takes it, and a thread at a
\* lock() gets the mutex if it is free again and again. The steps other
\* than lock() stay enabled until they are taken, so that strong fairness
\* asks of them what weak fairness would.
ThreadStep(t) == Acquire(t) \/ Release(t) \/ ReadMap(t) \/ WriteMap(t) \/ PerformIO(t)
InitThreadsFair ==
    /\ StatusIdle /\ ProcessIdle /\ CodecIdle /\ FindIdle /\ ScanIdle /\ MatchIdle /\ PolicyIdle
    /\ CacheIdle /\ ThreadIdle
SpecThreadsFair ==
    /\ InitThreadsFair
    /\ [][NextThreads]_vars
    /\ \A t \in Threads : SF_vars(ThreadStep(t))

\* One agent seen through both paths
InitPolicy ==
    /\ StatusIdle /\ ProcessIdle /\ CodecIdle /\ FindIdle /\ ScanIdle /\ MatchIdle
    /\ CacheIdle /\ ThreadIdle /\ PolicyInit
NextPolicy == ClaudePath \/ OpenCodePath
SpecPolicy == InitPolicy /\ [][NextPolicy]_vars

(***************************************************************************)
(* Claims                                                                  *)
(***************************************************************************)

\* C3: for a last message of type assistant that carries a tool_use,
\* determine_status returns Processing exactly when the file age is known
\* and below 8 seconds or the CPU usage is above 5 percent, and Waiting in
\* every other case.
C3_ToolUseReply ==
    (dsResult # NotRun /\ dsArgs.last_msg_type = "assistant" /\ dsArgs.has_tool_use)
        => LET active == \/ dsArgs.file_age_secs # NoAge /\ dsArgs.file_age_secs < 8
                         \/ dsArgs.cpu_usage > 5
           IN  /\ active => dsResult = "Processing"
               /\ ~active => dsResult = "Waiting"

\* A tool_use reply on the boundary: 8 seconds old, 5 percent CPU, Waiting
C3_Witness ==
    /\ dsResult = "Waiting"
    /\ dsArgs.last_msg_type = "assistant" /\ dsArgs.has_tool_use
    /\ dsArgs.file_age_secs = 8 /\ dsArgs.cpu_usage = 5

\* C4: for a last message of type assistant without tool_use,
\* determine_status returns Processing exactly when the file age is known
\* and below 3 seconds and Idle otherwise, whatever the CPU usage.
C4_TextReply ==
    (dsResult # NotRun /\ dsArgs.last_msg_type = "assistant" /\ ~dsArgs.has_tool_use)
        => LET fresh == dsArgs.file_age_secs # NoAge /\ dsArgs.file_age_secs < 3
           IN  /\ fresh => dsResult = "Processing"
               /\ ~fresh => dsResult = "Idle"

\* A text reply 3 seconds old on a busy CPU: Idle
C4_Witness ==
    /\ dsResult = "Idle"
    /\ dsArgs.last_msg_type = "assistant" /\ ~dsArgs.has_tool_use
    /\ dsArgs.file_age_secs = 3 /\ dsArgs.cpu_usage > 5

\* C5: for a last message of type user, determine_status returns Idle when
\* is_local_command or is_interrupted holds and Thinking otherwise, for every
\* file age, CPU usage, has_tool_use and has_tool_result.
C5_UserMessage ==
    (dsResult # NotRun /\ dsArgs.last_msg_type = "user")
        => dsResult = IF dsArgs.is_local_command \/ dsArgs.is_interrupted
                      THEN "Idle" ELSE "Thinking"

\* A tool result fed back, on a stale file and an idle CPU: Thinking
C5_Witness ==
    /\ dsResult = "Thinking"
    /\ dsArgs.last_msg_type = "user" /\ dsArgs.has_tool_result
    /\ dsArgs.file_age_secs = NoAge /\ dsArgs.cpu_usage = 0

\* C8: is_orphaned_process is true exactly for a process that has no parent,
\* or whose parent is pid 1, or whose parent is not in the table, or whose
\* parent's parent is pid 1.
C8_Orphaned ==
    orphaned # Nothing =>
        \A pid \in DOMAIN system :
            orphaned[1][pid] =
                (\/ system[pid].parent = NoPid
                 \/ system[pid].parent = 1
                 \/ system[pid].parent \notin DOMAIN system
                 \/ system[system[pid].parent].parent = 1)

\* One table with a process orphaned through its grandparent only, and a
\* process that is not orphaned
C8_Witness ==
    /\ orphaned # Nothing
    /\ \E pid \in DOMAIN system :
          /\ orphaned[1][pid]
          /\ system[pid].parent \in DOMAIN system \ {1}
    /\ \E pid \in DOMAIN system : ~orphaned[1][pid]

\* What the command line of a candidate looks like, image by image
CandidateCmds == {ImgClaude.cmd, ImgClaudePath.cmd, ImgOurApp.cmd}

\* The processes C9 says are returned
C9_Expected ==
    {pid \in DOMAIN system :
        /\ system[pid].cmd \in CandidateCmds
        /\ system[pid].name # ImgOurApp.name
        /\ ~(/\ system[pid].parent \in DOMAIN system
             /\ system[system[pid].parent].cmd \in CandidateCmds)
        /\ ~(/\ system[pid].parent \in DOMAIN system
             /\ system[system[pid].parent].cmd = ImgAcp.cmd)
        /\ ~(\/ system[pid].parent = NoPid
             \/ system[pid].parent = 1
             \/ system[pid].parent \notin DOMAIN system
             \/ system[system[pid].parent].parent = 1)}

\* C9: find_claude_processes returns exactly the candidates that are not the
\* engine's own app, whose parent is no candidate, whose parent's command
\* line does not contain claude-code-acp and that are not orphaned, each once.
C9_FindClaudeProcesses ==
    claudeFound # Nothing =>
        LET processes == claudeFound[1]
        IN  /\ {processes[i] : i \in DOMAIN processes} = C9_Expected
            /\ \A i, j \in DOMAIN processes : processes[i] = processes[j] => i = j

\* Two processes are returned, from a table that also runs a non-candidate
C9_Witness ==
    /\ claudeFound # Nothing
    /\ Len(claudeFound[1]) = 2
    /\ \E pid \in DOMAIN system \ {1} : system[pid].cmd \notin CandidateCmds

\* The paths C10 is about: no component holds a dash or starts with a dot
PlainPath(comps) ==
    \A i \in DOMAIN comps :
        /\ \A k \in DOMAIN comps[i] : comps[i][k] # "-"
        /\ comps[i][1] # "."

\* Every proper ancestor directory of the path exists
AncestorsExist(dirs, comps) ==
    \A n \in 1 .. (Len(comps) - 1) : SubSeq(comps, 1, n) \in dirs

ContentBearing(line) ==
    /\ \/ line.content.kind = "string" /\ line.content.text # <<>>
       \/ line.content.kind = "array" /\ line.content.blocks # <<>>
    /\ ~(/\ line.content.kind = "array"
         /\ \A i \in DOMAIN line.content.blocks : line.content.blocks[i].type = "thinking")

\* Newest to oldest, a compact_boundary line comes before every
\* content-bearing message and every isCompactSummary line
BoundaryFirst(lines) ==
    \E k \in DOMAIN lines :
        /\ lines[k].parses
        /\ lines[k].subtype = "compact_boundary"
        /\ \A j \in k .. Len(lines) :
              lines[j].parses => ~lines[j].is_compact_summary
        /\ \A j \in (k + 1) .. Len(lines) :
              lines[j].parses => ~ContentBearing(lines[j])

\* C2: when, newest to oldest, a compact_boundary line of the transcript is
\* reached before any content-bearing message and any isCompactSummary line,
\* the Session that find_session_for_process returns was parsed as
\* Compacting, whatever the last message, the file age and the CPU usage
\* are; and a status parsed as Compacting is still Compacting after the
\* sub-agent override and the more-active-file override.
C2_CompactingWins ==
    (found # Nothing /\ found[1] # Nothing) =>
        LET session == found[1][1]
        IN  /\ BoundaryFirst(transcript) => session.parsed_status = "Compacting"
            /\ session.parsed_status = "Compacting" =>
                  /\ session.subagent_status = "Compacting"
                  /\ session.status = "Compacting"

\* A fresh transcript whose last message is a user message followed by a
\* boundary line, with an active sub-agent and a more active other file
C2_Witness ==
    /\ found # Nothing /\ found[1] # Nothing
    /\ transcript = <<LineUserText, LineBoundary>>
    /\ findEnv.stat.age = 2
    /\ found[1][1].active_subagent_count > 0
    /\ \E i \in DOMAIN findEnv.listing.after :
          /\ findEnv.listing.after[i].age = 9
          /\ findEnv.listing.after[i].lines = <<LineUserText>>
    /\ findEnv.listing.assigned_count = 1
    /\ found[1][1].status = "Compacting"

\* The agent-*.jsonl entries of the session's subagents directory modified
\* less than 30 seconds ago
C6_ActiveSubagents ==
    IF findEnv.dir = Nothing THEN {}
    ELSE {i \in DOMAIN findEnv.dir[1] :
            LET e == findEnv.dir[1][i]
            IN  /\ Len(e.name) >= 12
                /\ SubSeq(e.name, 1, 6) = <<"a", "g", "e", "n", "t", "-">>
                /\ SubSeq(e.name, Len(e.name) - 5, Len(e.name)) = <<".", "j", "s", "o", "n", "l">>
                /\ e.age # NoAge /\ e.age < 30}

\* C6: in find_session_for_process, with at least one active sub-agent
\* transcript and a status of Waiting or Idle inferred from the primary
\* transcript, the status after the sub-agent step is Processing; with no
\* active sub-agent transcript, or an inferred status of Thinking, Processing
\* or Compacting, the sub-agent step leaves the status as inferred.
C6_SubagentOverride ==
    (found # Nothing /\ found[1] # Nothing) =>
        LET session == found[1][1]
            count == Cardinality(C6_ActiveSubagents)
        IN  /\ session.active_subagent_count = count
            /\ (count > 0 /\ session.parsed_status \in {"Waiting", "Idle"})
                  => session.subagent_status = "Processing"
            /\ (count = 0 \/ session.parsed_status \in {"Thinking", "Processing", "Compacting"})
                  => session.subagent_status = session.parsed_status

\* A tool_use reply in a quiet file, inferred as Waiting, becomes Processing
\* because one sub-agent transcript is 29 seconds old
C6_Witness ==
    /\ found # Nothing /\ found[1] # Nothing
    /\ findEnv.dir = Some(<<[name |-> NameAgent, age |-> 29]>>)
    /\ found[1][1].parsed_status = "Waiting"
    /\ found[1][1].subagent_status = "Processing"
    /\ found[1][1].status = "Processing"


\* C1: in one scan of get_sessions_internal, no transcript file of the
\* project directory is the primary file of two processes: any two Sessions
\* returned, which belong to two distinct processes, have different file
\* indices, however many processes and files there are.
C1_OneProcessPerFile ==
    scanned # Nothing =>
        LET sessions == scanned[1].sessions
        IN  \A i, j \in DOMAIN sessions :
                i # j => sessions[i].file_index # sessions[j].file_index

\* Two tracker contents a scan could have started from instead: nothing
\* known, and every session last seen Processing
Trackers == {EmptyTracker, [sid \in SessionIds |-> "Processing"]}

\* C7: the sessions a scan returns, and so the status of each, are those the
\* same scan returns when it starts from other contents of the
\* PREVIOUS_STATUS tracker (an empty tracker, a tracker that holds Processing
\* for every session): same processes, same directory listing, same file
\* times, same clock.
C7_TrackerNeverFeedsBack ==
    (scanned # Nothing /\ scanned[1].cwd # Nothing) =>
        \A tracker \in Trackers :
            get_sessions_internal(agentProcesses, scanned[1].cwd[1], scanned[1].entries,
                                  project.subagents, scanned[1].now, tracker).sessions
                = scanned[1].sessions

\* A scan that started from a tracker holding Processing for a session and
\* returned that session as Idle
C7_Witness ==
    /\ scanned # Nothing
    /\ \E i \in DOMAIN scanned[1].sessions :
          LET session == scanned[1].sessions[i]
          IN  /\ scanned[1].previous[session.id] = "Processing"
              /\ session.status = "Idle"


\* |start_time - creation time| of process i and file j (1-based)
TimeDistance(i, j) ==
    LET start == matchProcesses[i].start_time
        secs == matchFiles[j].created
    IN  IF start > secs THEN start - secs ELSE secs - start
\* The files whose creation time can be read
TimedFiles == {j \in DOMAIN matchFiles : matchFiles[j].created # NoTime}
\* File j is strictly nearer to process i than every other file
StrictlyNearest(i, j) ==
    /\ j \in TimedFiles
    /\ \A k \in TimedFiles \ {j} : TimeDistance(i, j) < TimeDistance(i, k)
\* Every process has a strictly nearest file and no two processes share theirs
NearestDistinct ==
    /\ \A i \in DOMAIN matchProcesses : \E j \in TimedFiles : StrictlyNearest(i, j)
    /\ \A i, k \in DOMAIN matchProcesses : \A j \in TimedFiles :
           StrictlyNearest(i, j) /\ StrictlyNearest(k, j) => i = k

\* C11: the map match_processes_to_files_by_time returns gives each process at
\* most one file of the candidates and no file to two processes; called with
\* two or more processes that each have a strictly nearest file, these files
\* pairwise distinct, it gives every process its nearest file.
C11_NearestAndInjective ==
    matched # Nothing =>
        LET result == matched[1]
        IN  /\ DOMAIN result \subseteq {matchProcesses[i].pid : i \in DOMAIN matchProcesses}
            /\ \A pid \in DOMAIN result : result[pid] + 1 \in DOMAIN matchFiles
            /\ \A p, q \in DOMAIN result : result[p] = result[q] => p = q
            /\ Len(matchProcesses) >= 2 /\ NearestDistinct =>
                   \A i \in DOMAIN matchProcesses :
                       /\ matchProcesses[i].pid \in DOMAIN result
                       /\ StrictlyNearest(i, result[matchProcesses[i].pid] + 1)
\* Two processes matched crosswise: the first with the second file
C11_Witness ==
    /\ matched # Nothing
    /\ Len(matchProcesses) = 2
    /\ Len(matchFiles) = 2
    /\ NearestDistinct
    /\ matchProcesses[1].pid \in DOMAIN matched[1]
    /\ matchProcesses[2].pid \in DOMAIN matched[1]
    /\ matched[1][matchProcesses[1].pid] = 1
    /\ matched[1][matchProcesses[2].pid] = 0

\* The caches by the name their lookups are marked with
CacheNamed(name) ==
    CASE name = "worktree" -> WORKTREE_CACHE
      [] name = "github_url" -> GITHUB_URL_CACHE
      [] name = "pr_info" -> PR_INFO_CACHE
      [] name = "ahead_behind" -> AHEAD_BEHIND_CACHE
      [] name = "config" -> CONFIG_CACHE
\* The duration d of each cache that has one
TtlOf(name) ==
    CASE name = "pr_info" -> PrInfoTtl
      [] name = "ahead_behind" -> AheadBehindTtl
      [] name = "config" -> ConfigTtl
TtlCacheNames == {"pr_info", "ahead_behind", "config"}
PermanentCacheNames == {"worktree", "github_url"}
\* get(key) of the named cache, now
Served(name, key) ==
    IF name = "config" THEN ConfigCache_get(CONFIG_CACHE, key, instant)
    ELSE TtlCache_get(CacheNamed(name), key, instant)
\* The last operation inserted (key, value) in the named cache
JustInserted(name) == lookup # Nothing /\ lookup[1].name = name
\* An insert made now is held with its value and the time now
InsertHeld(name) ==
    JustInserted(name) =>
        /\ lookup[1].key \in DOMAIN CacheNamed(name).map
        /\ CacheNamed(name).map[lookup[1].key] = CacheEntry(lookup[1].result, instant)
\* A step that neither inserts key nor removes it leaves its entry as it is
EntryKept(name) ==
    \A key \in DOMAIN CacheNamed(name).map :
        key \in DOMAIN CacheNamed(name)'.map /\ ~(JustInserted(name)' /\ lookup'[1].key = key)
            => CacheNamed(name)'.map[key] = CacheNamed(name).map[key]

\* C12: in a cache with TTL d (PR info 60 s, ahead/behind 30 s, config 60 s)
\* a value v inserted for k at time T stays held as (v, T) while k is neither
\* inserted again nor pruned, and get(k) at time t returns v when t - T <= d
\* and nothing when t - T > d.
C12_TtlExpiry ==
    /\ [](\A name \in TtlCacheNames :
            /\ InsertHeld(name)
            /\ \A key \in DOMAIN CacheNamed(name).map :
                  Served(name, key) =
                      IF instant - CacheNamed(name).map[key].inserted_at <= TtlOf(name)
                      THEN Some(CacheNamed(name).map[key].value)
                      ELSE Nothing)
    /\ [][\A name \in TtlCacheNames : EntryKept(name)]_vars
\* An ahead/behind entry served at exactly its TTL while a PR entry, older
\* than its TTL, is not
C12_Witness ==
    /\ \E key \in DOMAIN AHEAD_BEHIND_CACHE.map :
          /\ instant - AHEAD_BEHIND_CACHE.map[key].inserted_at = AheadBehindTtl
          /\ Served("ahead_behind", key) = Some(AHEAD_BEHIND_CACHE.map[key].value)
    /\ \E key \in DOMAIN PR_INFO_CACHE.map :
          /\ instant - PR_INFO_CACHE.map[key].inserted_at > PrInfoTtl
          /\ Served("pr_info", key) = Nothing

\* The step removes key from the named permanent cache by a cleanup whose
\* active set lacks it
PrunedByCleanup(name, key) ==
    /\ key \notin DOMAIN CacheNamed(name)'.map
    /\ \E active_project_paths \in SUBSET CachePaths :
          /\ key \notin active_project_paths
          /\ CleanupGitCaches(active_project_paths)

\* C13: in the permanent caches (worktree, GitHub URL) get(k) returns the value
\* last inserted for k at every later time, however long after the insert,
\* and the entry goes only by a cleanup whose active set does not hold k.
C13_PermanentUntilPruned ==
    /\ [](\A name \in PermanentCacheNames :
            /\ CacheNamed(name).ttl = Nothing
            /\ InsertHeld(name)
            /\ \A key \in DOMAIN CacheNamed(name).map :
                  Served(name, key) = Some(CacheNamed(name).map[key].value))
    /\ [][\A name \in PermanentCacheNames : \A key \in DOMAIN CacheNamed(name).map :
            \/ /\ key \in DOMAIN CacheNamed(name)'.map
               /\ CacheNamed(name)'.map[key] = CacheNamed(name).map[key]
            \/ PrunedByCleanup(name, key)]_vars
\* A GitHub URL served when older than every TTL of the program
C13_Witness ==
    \E key \in DOMAIN GITHUB_URL_CACHE.map :
        /\ instant - GITHUB_URL_CACHE.map[key].inserted_at > PrInfoTtl
        /\ Served("github_url", key) = Some(Some(StrRepoUrl))

\* The new map is the old one cut down to the keys of the active set
PrunedTo(old, new, active) ==
    /\ DOMAIN new.map = DOMAIN old.map \cap active
    /\ \A key \in DOMAIN new.map : new.map[key] = old.map[key]
\* The session ids the tracker holds
Tracked(tracker) == {sid \in SessionIds : tracker[sid] # None}

\* C14: cleanup_stale_status_entries(A) leaves the tracker with the ids it
\* held that are in A, each with its status; cleanup_links_cache(A) and, for
\* the worktree and GitHub URL caches, cleanup_git_caches(A) leave the cache
\* with the keys it held that are in A, each with its value and insertion time.
C14_PruneExactly ==
    [][/\ UNCHANGED cacheVars =>
             \A active_session_ids \in SUBSET SessionIds :
                 CleanupStaleStatusEntries(active_session_ids) =>
                     /\ Tracked(PREVIOUS_STATUS') =
                            Tracked(PREVIOUS_STATUS) \cap active_session_ids
                     /\ \A sid \in Tracked(PREVIOUS_STATUS') :
                            PREVIOUS_STATUS'[sid] = PREVIOUS_STATUS[sid]
       /\ UNCHANGED <<instant, PREVIOUS_STATUS>> /\ lookup' = Nothing =>
             \A active_project_paths \in SUBSET CachePaths :
                 /\ CleanupLinksCache(active_project_paths) =>
                        PrunedTo(CONFIG_CACHE, CONFIG_CACHE', active_project_paths)
                 /\ CleanupGitCaches(active_project_paths) =>
                        /\ PrunedTo(WORKTREE_CACHE, WORKTREE_CACHE', active_project_paths)
                        /\ PrunedTo(GITHUB_URL_CACHE, GITHUB_URL_CACHE',
                                    active_project_paths)]_vars
\* Two entries, one inserted later than the other, of which a cleanup has left
\* the later one: the GitHub URL cache after cleanup_git_caches({/a/b/a})
C14_Witness ==
    /\ lookup = Nothing
    /\ DOMAIN GITHUB_URL_CACHE.map = {PathNested}
    /\ GITHUB_URL_CACHE.map[PathNested].inserted_at > 0
    /\ instant > GITHUB_URL_CACHE.map[PathNested].inserted_at
    /\ Tracked(PREVIOUS_STATUS) = {}

\* The GitHub URL cache holds an absent result for the project
AbsentUrlCached(project_path) ==
    /\ project_path \in DOMAIN GITHUB_URL_CACHE.map
    /\ GITHUB_URL_CACHE.map[project_path].value = Nothing
\* The last operation ran git remote get-url for the project
UrlLookedUp(project_path) ==
    /\ lookup # Nothing
    /\ lookup[1].name = "github_url"
    /\ lookup[1].key = project_path

\* C16, for the GitHub remote URL: once a lookup of an earlier scan has
\* failed and the absent result is what the cache holds, the lookup is made
\* again by a later get_github_url unless the project leaves the active set
\* (its entry is pruned).
C16_FailedLookupRetried ==
    \A project_path \in CachePaths :
        (AbsentUrlCached(project_path) /\ ~UrlLookedUp(project_path))
            ~> (UrlLookedUp(project_path) \/ project_path \notin DOMAIN GITHUB_URL_CACHE.map)

\* The locks a thread holds
HeldBy(t) == {name \in LockNames : lockHolder[name] = t}
\* The thread is about to do file or external-command I/O
AtIO(t) == Running(t) /\ NextStep(t).kind = "io"

\* C15: no lock on the engine's shared state (status tracker, git caches,
\* config cache, process-table handle) is held while file or
\* external-command I/O is performed.
C15_NoLockAcrossIo == \A t \in Threads : AtIO(t) => HeldBy(t) = {}

\* The examined lines that carry a session id, by position (oldest first)
IdLines(lines) ==
    {i \in DOMAIN lines :
        /\ i > Len(lines) - LookbackLines
        /\ lines[i].parses
        /\ lines[i].session_id # None}
NewestIdLine(lines) == CHOOSE i \in IdLines(lines) : \A j \in IdLines(lines) : j <= i

\* C17: parse_session_file returns no Session when the transcript cannot be
\* opened, when it is empty, or when no examined line carries a session id;
\* in every other case it returns a Session whose id is the session id of
\* the newest examined line that has one.
C17_SessionIdOrSkip ==
    found # Nothing =>
        IF ~findEnv.stat.readable \/ transcript = <<>> \/ IdLines(transcript) = {}
        THEN found[1] = Nothing
        ELSE /\ found[1] # Nothing
             /\ found[1][1].id = transcript[NewestIdLine(transcript)].session_id

\* The newest line has no session id and the line before it has another
\* one than the rest of the pool
C17_Witness ==
    /\ found # Nothing /\ found[1] # Nothing
    /\ transcript = <<LineUserText, LineNoSession>>
    /\ found[1][1].id = "s2"

\* The newest message is a finished assistant reply without a pending tool
\* invocation, the storage is older than every recency window and the CPU is
\* at or below 5 percent
FinishedAndQuiet(view) ==
    /\ view.role = "assistant" /\ view.finished /\ ~view.has_tool_use
    /\ view.file_age_secs # NoAge
    /\ view.file_age_secs >= ToolActiveSecs /\ view.file_age_secs >= RecentSecs
    /\ view.cpu_usage <= CpuActive

\* C18: for an agent whose newest message is a finished assistant reply with
\* no pending tool invocation, with storage unmodified for longer than every
\* recency window and CPU at or below 5 percent, determine_status and
\* parse_opencode_session report the same status.
C18_OnePolicy ==
    (claudeStatus # NotRun /\ opencodeStatus # NotRun /\ FinishedAndQuiet(agentView))
        => claudeStatus = opencodeStatus

ActiveStatuses == {"Thinking", "Processing", "Compacting"}

\* C19: status_sort_priority maps Thinking, Processing and Compacting to 0,
\* Waiting to 1 and Idle to 2, so that every active status sorts strictly
\* before Waiting and Waiting strictly before Idle. Stated of the table
\* find_session_for_process has compared statuses with.
C19_SortPriority ==
    found # Nothing =>
        /\ \A s \in ActiveStatuses : status_sort_priority(s) = 0
        /\ status_sort_priority("Waiting") = 1
        /\ status_sort_priority("Idle") = 2
        /\ \A s \in ActiveStatuses : status_sort_priority(s) < status_sort_priority("Waiting")
        /\ status_sort_priority("Waiting") < status_sort_priority("Idle")
        /\ \A s \in SessionStatus \ ActiveStatuses : s \in {"Waiting", "Idle"}

\* The priorities at work: an Idle session whose status a more active other
\* file of the project replaced by Thinking
C19_Witness ==
    /\ found # Nothing /\ found[1] # Nothing
    /\ found[1][1].subagent_status = "Idle"
    /\ found[1][1].status = "Thinking"
    /\ status_sort_priority(found[1][1].status)
          < status_sort_priority(found[1][1].subagent_status)

\* Newest to oldest, an isCompactSummary line is reached before any
\* compact_boundary line
SummaryFirst(lines) ==
    \E k \in DOMAIN lines :
        /\ k > Len(lines) - LookbackLines
        /\ lines[k].parses
        /\ lines[k].is_compact_summary
        /\ \A j \in (k + 1) .. Len(lines) :
              lines[j].parses => lines[j].subtype # "compact_boundary"

\* C20: if, reading the examined lines newest to oldest, an isCompactSummary
\* line is reached before the compact_boundary line, parse_session_file does
\* not report Compacting, whether or not that summary line carries message
\* content.
C20_SummaryEndsCompaction ==
    (found # Nothing /\ found[1] # Nothing /\ SummaryFirst(transcript))
        => found[1][1].parsed_status # "Compacting"
\* The transcripts of the last scan as find_session_for_process met them
ScannedFiles ==
    LET jsonl_files == get_recently_active_jsonl_files(scanned[1].entries)
    IN  [i \in DOMAIN jsonl_files |-> stat_file(jsonl_files[i], scanned[1].now)]
\* The files with those at the indices of taken left out of the override's
\* reach: a file whose age is unknown is never read by it
WithoutFiles(files, taken) ==
    [i \in DOMAIN files |-> IF i - 1 \in taken THEN [files[i] EXCEPT !.age = NoAge]
                            ELSE files[i]]
\* The status of a Session had the override skipped the files of taken
StatusSkipping(files, session, assigned_count, taken) ==
    other_files_loop(WithoutFiles(files, taken), files[session.file_index + 1].path,
        AgentProcess(session.pid, session.cpu_usage, Nothing, 0), assigned_count, 1,
        session.subagent_status)

\* C21: the status reported for a process is never taken from a file that
\* is the assigned file of a different process of the scan: it is the status
\* the override gives when the files assigned to the other processes are
\* left out, also when files were assigned by time correlation.
C21_OverrideSkipsAssigned ==
    (scanned # Nothing /\ scanned[1].cwd # Nothing) =>
        \E files \in {ScannedFiles} :
        \E sessions \in {scanned[1].sessions} :
        \E assigned_count \in
              {Len(SelectSeq(agentProcesses, LAMBDA q : q.cwd = scanned[1].cwd))} :
            \A k \in DOMAIN sessions :
                sessions[k].status =
                    StatusSkipping(files, sessions[k], assigned_count,
                        {sessions[j].file_index : j \in DOMAIN sessions \ {k}})

\* The path:branch keys of the projects of a set
KeysOfPaths(project_paths) == {cache_key(p, BranchMain) : p \in project_paths}

\* C22: cleanup_git_caches(A) keeps a PR-info or ahead/behind entry stored
\* under key path:branch if and only if path is a member of A, also when an
\* active path is a string prefix of the path of an entry not in A.
C22_PathBranchPruned ==
    [][UNCHANGED <<instant, PREVIOUS_STATUS>> /\ lookup' = Nothing =>
          \A active_project_paths \in SUBSET CachePaths :
              CleanupGitCaches(active_project_paths) =>
                  /\ PrunedTo(PR_INFO_CACHE, PR_INFO_CACHE',
                              KeysOfPaths(active_project_paths))
                  /\ PrunedTo(AHEAD_BEHIND_CACHE, AHEAD_BEHIND_CACHE',
                              KeysOfPaths(active_project_paths))]_vars

\* The processes of the scanned project directory
ScannedProcesses == SelectSeq(agentProcesses, LAMBDA q : q.cwd = scanned[1].cwd)
\* The positions in the listing of the .jsonl files that are not sub-agent
\* files and have a modification time
TranscriptEntries(entries) ==
    {i \in DOMAIN entries :
        /\ ends_with(entries[i].name, StrJsonl) /\ Len(entries[i].name) > Len(StrJsonl)
        /\ ~starts_with(entries[i].name, StrAgentPrefix)
        /\ entries[i].modified # NoTime}
\* Those among them that no other one is newer than
NewestTranscripts(entries) ==
    {i \in TranscriptEntries(entries) :
        \A j \in TranscriptEntries(entries) : entries[j].modified <= entries[i].modified}
\* The Session has the id, the role and the base status parsed from the entry
TakenFrom(session, entry, now) ==
    \E parsed \in {parse_session_file(stat_file(entry, now), session.pid, session.cpu_usage)} :
        /\ parsed # Nothing
        /\ session.id = parsed[1].id
        /\ session.last_message_role = parsed[1].last_message_role
        /\ session.parsed_status = parsed[1].status

ContentLines(lines) ==
    {k \in DOMAIN lines :
        k > Len(lines) - LookbackLines /\ lines[k].parses /\ ContentBearing(lines[k])}
NewestContentLine(lines) ==
    CHOOSE k \in ContentLines(lines) : \A j \in ContentLines(lines) : j <= k
\* A compact_boundary line is at or after position k
BoundarySince(lines, k) ==
    \E j \in k .. Len(lines) : lines[j].parses /\ lines[j].subtype = "compact_boundary"
\* determine_status on the message of a line
StatusOfLine(line, file_age_secs, cpu_usage) ==
    determine_status(line.msg_type, has_tool_use(line.content), has_tool_result(line.content),
        is_local_slash_command(line.content), is_interrupted_request(line.content),
        file_age_secs, cpu_usage)
\* What the first loop holds is what the line gives
TakenFromLine(acc, line) ==
    /\ acc.last_msg_type = line.msg_type
    /\ acc.last_role = line.role
    /\ acc.last_has_tool_use = has_tool_use(line.content)
    /\ acc.last_has_tool_result = has_tool_result(line.content)
    /\ acc.last_is_local_command = is_local_slash_command(line.content)
    /\ acc.last_is_interrupted = is_interrupted_request(line.content)

\* C24 as stated: the status is that of the newest content-bearing line,
\* whatever the newer lines without content are.
C24_NewerLinesNeverCount ==
    (found # Nothing /\ found[1] # Nothing /\ ContentLines(transcript) # {}) =>
        found[1][1].parsed_status =
            StatusOfLine(transcript[NewestContentLine(transcript)],
                         findEnv.stat.age, findEnv.cpu_usage)

\* C24: the status-determining message chosen by parse_session_file is the
\* newest examined line whose content is a non-empty string or a non-empty
\* array not made solely of thinking blocks; newer lines with empty content,
\* no content or only thinking blocks do not affect the last type, the role
\* and the tool flags, and they do not affect the status unless one of them
\* is a compact_boundary line, after which the status can only be that of
\* the chosen message or Compacting.
C24_StatusMessage ==
    (found # Nothing /\ found[1] # Nothing /\ ContentLines(transcript) # {}) =>
        \E acc \in {first_loop(recent_lines(transcript), ParseStart)} :
        \E k \in {NewestContentLine(transcript)} :
        \E status \in {StatusOfLine(transcript[k], findEnv.stat.age, findEnv.cpu_usage)} :
            /\ TakenFromLine(acc, transcript[k])
            /\ found[1][1].last_message_role = transcript[k].role
            /\ found[1][1].parsed_status \in {status, "Compacting"}
            /\ ~BoundarySince(transcript, k) => found[1][1].parsed_status = status

\* A thinking-only assistant line after an ordinary user message: Thinking
C24_Witness ==
    /\ found # Nothing /\ found[1] # Nothing
    /\ transcript = <<LineUserText, LineThinking>>
    /\ found[1][1].parsed_status = "Thinking"
    /\ found[1][1].last_message_role = "user"

\* The lines parse_session_file examines at most: the last 500, oldest first
Window(lines) ==
    IF Len(lines) <= LookbackLines THEN lines
    ELSE SubSeq(lines, Len(lines) - LookbackLines + 1, Len(lines))
\* The status of a transcript without a status-determining message
StatusOfSilence(file_age_secs) ==
    IF file_age_secs # NoAge /\ file_age_secs < 3 THEN "Processing" ELSE "Idle"

LiveCwds == {agentProcesses[i].cwd[1] :
                i \in {j \in DOMAIN agentProcesses : agentProcesses[j].cwd # Nothing}}
\* The pids of the processes that run in a directory
PidsIn(cwd) == {agentProcesses[i].pid :
                   i \in {j \in DOMAIN agentProcesses : agentProcesses[j].cwd = Some(cwd)}}

\* C26: for a project directory, get_sessions_internal uses the process
\* group whose cwd equals the decoded path; if none exists it uses a group
\* whose cwd encodes to exactly the directory name and reports that real
\* cwd, not the decoded path, as the project path; if neither exists the
\* directory yields no Session.
C26_GroupOfDirectory ==
    scanned # Nothing =>
        \E project_path \in {convert_dir_name_to_path(project.dirs, project.dir_name)} :
        \E encoding \in {{cwd \in LiveCwds : convert_path_to_dir_name(cwd) = project.dir_name}} :
            /\ project_path \in LiveCwds => scanned[1].cwd = Some(project_path)
            /\ (project_path \notin LiveCwds /\ encoding # {}) =>
                  /\ scanned[1].cwd # Nothing
                  /\ scanned[1].cwd[1] \in encoding
                  /\ scanned[1].cwd[1] # project_path
            /\ (project_path \notin LiveCwds /\ encoding = {}) =>
                  scanned[1].cwd = Nothing /\ scanned[1].sessions = <<>>
            /\ scanned[1].cwd # Nothing =>
                  \A k \in DOMAIN scanned[1].sessions :
                     scanned[1].sessions[k].pid \in PidsIn(scanned[1].cwd[1])

\* The directory -a-b decodes to /a/b, where no process runs; the process
\* of /a-b is found by encoding its cwd, and its Session is reported
C26_Witness ==
    /\ scanned # Nothing
    /\ convert_dir_name_to_path(project.dirs, project.dir_name) = PathProject
    /\ PathProject \notin LiveCwds
    /\ scanned[1].cwd = Some(PathDashed)
    /\ Len(scanned[1].sessions) = 1

\* What the character at position i of a path without its leading slash
\* becomes in the directory name
EncodedAt(rest, i) ==
    IF rest[i] = "/"
    THEN IF i < Len(rest) /\ rest[i + 1] = "." THEN <<"-", "-">> ELSE <<"-">>
    ELSE IF rest[i] = "." /\ i > 1 /\ rest[i - 1] = "/" THEN <<>>
         ELSE <<rest[i]>>

\* C27: convert_path_to_dir_name removes the leading slash, starts the name
\* with one dash, turns every slash directly followed by a dot into two
\* dashes while dropping that dot, turns every other slash into one dash
\* and copies every other character unchanged; the result never contains
\* a slash.
C27_EncodingRule ==
    dirName # Nothing =>
        \E rest \in {Tail(PathText(codecPath))} :
            /\ dirName[1] = <<"-">> \o join([i \in 1 .. Len(rest) |-> EncodedAt(rest, i)], <<>>)
            /\ \A i \in DOMAIN dirName[1] : dirName[1][i] # "/"

\* /a/.h/a-b is encoded as -a--h-a-b
C27_Witness ==
    /\ codecPath = <<CompA, CompHidden, CompDash>>
    /\ dirName = Some(<<"-", "a", "-", "-", "h", "-", "a", "-", "b">>)

\* How many leading dash-separated parts are path components: the first
\* part always, each further part while the path up to it is a directory
WalkedParts(dirs, parts) ==
    CHOOSE k \in 1 .. Len(parts) :
        /\ \A j \in 2 .. k : is_dir(dirs, PathText(SubSeq(parts, 1, j)))
        /\ k < Len(parts) => ~is_dir(dirs, PathText(SubSeq(parts, 1, k + 1)))

\* The part before the first double dash as the claim resolves it
ResolvedBase(dirs, parts) ==
    \* (the walked parts as components, the remaining parts as one leaf)
    IF WalkedParts(dirs, parts) < Len(parts)
    THEN PathText(SubSeq(parts, 1, WalkedParts(dirs, parts))) \o <<"/">>
         \o join(SubSeq(parts, WalkedParts(dirs, parts) + 1, Len(parts)), <<"-">>)
    ELSE PathText(parts)

\* A hidden segment as the claim resolves it: a dot-prefixed folder with
\* every dash a separator
ResolvedHidden(segment) ==
    <<"/", ".">> \o [i \in 1 .. Len(segment) |-> IF segment[i] = "-" THEN "/" ELSE segment[i]]

\* C28: convert_dir_name_to_path resolves the part before the first double
\* dash by walking its dash-separated parts left to right, a dash being a
\* path separator while the path so far plus the next part is an existing
\* directory, and all remaining parts joined with dashes being the leaf
\* name at the first part that is not; each double dash then starts a
\* dot-prefixed folder inside which every single dash is a path separator.
C28_DecodingRule ==
    decoded # Nothing =>
        \E segments \in {split(Tail(dirName[1]), <<"-", "-">>)} :
            decoded[1] = ResolvedBase(fsDirs, split(segments[1], <<"-">>))
                         \o join([i \in 1 .. Len(segments) - 1 |-> ResolvedHidden(segments[i + 1])], <<>>)

\* -a-b--h-a-b is decoded while /a/b exists: /a/b/.h/a/b
C28_Witness ==
    /\ dirName = Some(<<"-", "a", "-", "b", "-", "-", "h", "-", "a", "-", "b">>)
    /\ <<CompA, CompB>> \in fsDirs
    /\ decoded = Some(<<"/", "a", "/", "b", "/", ".", "h", "/", "a", "/", "b">>)

\* The lines of the lookback window that carry usage data, by position
UsageLines == {i \in DOMAIN Window(transcript) :
                  Window(transcript)[i].parses /\ Window(transcript)[i].usage # Nothing}
NewestUsageLine == CHOOSE i \in UsageLines : \A j \in UsageLines : j <= i
\* The input, cache-creation and cache-read tokens of the newest such line
UsedTokens ==
    unwrap_or(Window(transcript)[NewestUsageLine].usage[1].input_tokens, 0)
    + unwrap_or(Window(transcript)[NewestUsageLine].usage[1].cache_creation_input_tokens, 0)
    + unwrap_or(Window(transcript)[NewestUsageLine].usage[1].cache_read_input_tokens, 0)
\* max(0, 100 - 100 * used / 200000), in tokens of the budget
PercentLeft(used) == IF used >= ContextBudget THEN 0 ELSE ContextBudget - used

\* C29 as stated: context_window_percent is absent when no examined line
\* carries usage data; otherwise it is max(0, 100 - 100*used/200000) for the
\* tokens of the newest line carrying usage data, for every used including
\* 0 (giving 100) and values above 200000 (giving 0), so a present value
\* lies between 0 and 100.
C29_PercentForEveryUsage ==
    (found # Nothing /\ found[1] # Nothing) =>
        /\ UsageLines = {} => found[1][1].context_window_percent = Nothing
        /\ UsageLines # {} => found[1][1].context_window_percent = Some(PercentLeft(UsedTokens))
        /\ found[1][1].context_window_percent # Nothing =>
              /\ found[1][1].context_window_percent[1] >= 0
              /\ found[1][1].context_window_percent[1] <= ContextBudget

\* C29, amended: context_window_percent is absent when no examined line
\* carries usage data and when the tokens of the newest line carrying usage
\* data sum to 0; when they sum to used > 0 it is
\* max(0, 100 - 100*used/200000), which is 0 for used of 200000 and above,
\* so a present value is at least 0 and below 100.
C29_PercentOfUsage ==
    (found # Nothing /\ found[1] # Nothing) =>
        /\ UsageLines = {} => found[1][1].context_window_percent = Nothing
        /\ (UsageLines # {} /\ UsedTokens = 0) => found[1][1].context_window_percent = Nothing
        /\ (UsageLines # {} /\ UsedTokens > 0) =>
              found[1][1].context_window_percent = Some(PercentLeft(UsedTokens))
        /\ found[1][1].context_window_percent # Nothing =>
              /\ found[1][1].context_window_percent[1] >= 0
              /\ found[1][1].context_window_percent[1] < ContextBudget

\* The newest line with usage data holds 200000 input tokens and one
\* cache-read token, a newer user message holds none: 0 percent are left
C29_Witness ==
    /\ found # Nothing /\ found[1] # Nothing
    /\ transcript = <<LineWithUsage(TokenUsage(Some(ContextBudget), Nothing, Some(1))), LineUserText>>
    /\ found[1][1].context_window_percent = Some(0)

\* The working directory whose processes belong to the project directory:
\* the decoded path if a process runs there, else one that encodes to the name
OwnCwds ==
    IF convert_dir_name_to_path(project.dirs, project.dir_name) \in LiveCwds
    THEN {convert_dir_name_to_path(project.dirs, project.dir_name)}
    ELSE {cwd \in LiveCwds : convert_path_to_dir_name(cwd) = project.dir_name}
\* The pids of the Sessions of the scan
SessionPids == {scanned[1].sessions[k].pid : k \in DOMAIN scanned[1].sessions}

\* C30: a process without a cwd, a process whose cwd matches no project
\* directory and a process whose project directory contains no transcript
\* file each yield no Session, and the Sessions of the other processes of
\* the same scan are still produced: they are the Sessions of a scan of
\* those processes alone.
C30_SkippedProcesses ==
    scanned # Nothing =>
        /\ \A i \in DOMAIN agentProcesses :
              (\/ agentProcesses[i].cwd = Nothing
               \/ agentProcesses[i].cwd[1] \notin OwnCwds
               \/ TranscriptEntries(scanned[1].entries) = {})
                 => agentProcesses[i].pid \notin SessionPids
        /\ \A cwd \in OwnCwds :
              scanned[1].sessions =
                 get_sessions_internal(SelectSeq(agentProcesses, LAMBDA q : q.cwd = Some(cwd)),
                                       cwd, scanned[1].entries, project.subagents,
                                       scanned[1].now, scanned[1].previous).sessions

\* A process without cwd is scanned beside the process of /a/b, and the
\* Session of the latter is reported
C30_Witness ==
    /\ scanned # Nothing
    /\ \E i \in DOMAIN agentProcesses : agentProcesses[i].cwd = Nothing
    /\ \E i \in DOMAIN agentProcesses : agentProcesses[i].cwd = Some(PathProject)
    /\ Len(scanned[1].sessions) = 1
    /\ SessionPids = PidsIn(PathProject)

\* A text that is a vocabulary command or starts with one and a space
CommandOrArgs(text) ==
    \E cmd \in local_commands :
        \/ text = cmd
        \/ Len(text) > Len(cmd) /\ SubSeq(text, 1, Len(cmd)) = cmd /\ text[Len(cmd) + 1] = " "
\* The positions at which the closing command-name tag begins in a text
ClosingTags(text) ==
    {i \in 1 .. Len(text) :
        i + Len(StrCommandNameEnd) - 1 <= Len(text)
        /\ SubSeq(text, i, i + Len(StrCommandNameEnd) - 1) = StrCommandNameEnd}
\* The name inside a leading command-name wrapper: what stands between the
\* opening tag and the first closing tag (the end of the text if there is none)
WrappedName(text) ==
    IF ClosingTags(text) = {} THEN SubSeq(text, Len(StrCommandName) + 1, Len(text))
    ELSE SubSeq(text, Len(StrCommandName) + 1,
                (CHOOSE i \in ClosingTags(text) : \A j \in ClosingTags(text) : i <= j) - 1)
\* The claim's recognition of a local command in a message text
RecognisedCommand(text) ==
    \/ CommandOrArgs(trim(text))
    \/ starts_with(trim(text), StrCommandName) /\ CommandOrArgs(trim(WrappedName(trim(text))))
    \/ starts_with(trim(text), StrStdoutTag)
    \/ starts_with(trim(text), StrCaveatTag)

C32_ReadsOwnWrite ==
    \A t \in Threads : configReturned[t] # Nothing => configReturned[t] = linksSet

\* The newest content message of the transcript is an assistant message
AssistantLast ==
    /\ ContentLines(transcript) # {}
    /\ transcript[NewestContentLine(transcript)].msg_type = "assistant"
\* The last scan reported the status the claim names for that message
ReportsSettled ==
    /\ found # Nothing /\ found[1] # Nothing
    /\ found[1][1].status =
          IF has_tool_use(transcript[NewestContentLine(transcript)].content)
          THEN "Waiting" ELSE "Idle"

StatusAtAge(args, age) ==
    determine_status(args.last_msg_type, args.has_tool_use, args.has_tool_result,
                     args.is_local_command, args.is_interrupted, age, args.cpu_usage)

OldAges == {age \in 0 .. MaxAge : age >= ToolActiveSecs}

C34_OlderNeverMoreActive ==
    dsResult # NotRun =>
        /\ dsArgs.file_age_secs # NoAge =>
               \A older \in dsArgs.file_age_secs .. MaxAge :
                   status_sort_priority(StatusAtAge(dsArgs, older))
                       >= status_sort_priority(dsResult)
        /\ dsArgs.file_age_secs = NoAge =>
               /\ OldAges # {}
               /\ \A old \in OldAges : StatusAtAge(dsArgs, old) = dsResult

\* A tool_use reply of unknown age is Waiting, as at 8 s and later, while at 7 s it was Processing
C34_Witness ==
    /\ dsArgs # Nothing
    /\ dsArgs.last_msg_type = "assistant" /\ dsArgs.has_tool_use
    /\ dsArgs.cpu_usage <= CpuActive
    /\ dsArgs.file_age_secs = NoAge
    /\ dsResult = "Waiting"
    /\ StatusAtAge(dsArgs, ToolActiveSecs - 1) = "Processing"
    /\ StatusAtAge(dsArgs, ToolActiveSecs) = "Waiting"

(***************************************************************************)
(* C35: the more-active-file override of find_session_for_process changes  *)
(* only the status: id, preview, role, timestamp and branch of the Session *)
(* returned are those parse_session_file gives for the primary transcript, *)
(* the sub-agent count is that of the primary session, and the final       *)
(* status has a priority number at most that of the primary's status.      *)
(***************************************************************************)
PrimaryParsed ==
    parse_session_file(jsonl_files_now[index_now + 1], 11, findEnv.cpu_usage)

SameButStatus(session, primary) ==
    /\ session.id = primary.id
    /\ session.last_message = primary.last_message
    /\ session.last_message_role = primary.last_message_role
    /\ session.last_activity_at = primary.last_activity_at
    /\ session.git_branch = primary.git_branch
    /\ session.active_subagent_count = count_active_subagents(subagents_now[primary.id])
    /\ status_sort_priority(session.status) <= status_sort_priority(primary.status)

C35_OverrideChangesStatusOnly ==
    (found # Nothing /\ found[1] # Nothing /\ ReportIsCurrent) =>
        \E primary \in {PrimaryParsed} :
            /\ primary # Nothing
            /\ SameButStatus(found[1][1], primary[1])

\* An idle session on main whose status comes from a fresh transcript of
\* another session on dev
C35_Witness ==
    /\ found # Nothing /\ found[1] # Nothing /\ ReportIsCurrent
    /\ transcript = <<LineAssistantText>>
    /\ findEnv.listing.after = <<FileView(NameOther, TRUE, <<LineUserText>>, 9)>>
    /\ findEnv.listing.assigned_count = 1
    /\ found[1][1].parsed_status = "Idle"
    /\ found[1][1].subagent_status = "Idle"
    /\ found[1][1].status = "Thinking"
    /\ found[1][1].id = "s1"
    /\ found[1][1].git_branch = Some("main")
    /\ found[1][1].last_activity_at = "t1"
    /\ found[1][1].last_message = Some(<<"o", "k">>)
    /\ found[1][1].last_message_role = "assistant"

(***************************************************************************)
(* C36: after any sequence of scans and tracker prunes, the tracker maps   *)
(* a session id to the status the most recent scan that produced the id    *)
(* reported for it, unless the id has been pruned since; a scan changes    *)
(* only the entries of the ids it produced and only a prune removes        *)
(* entries.                                                                *)
(***************************************************************************)
C36_TrackerIsLastReported == PREVIOUS_STATUS = reported

\* The last scan found one session in another status than the scan before
\* it and a second session, which has been pruned since
C36_Witness ==
    /\ scanned # Nothing
    /\ \E i, j \in DOMAIN scanned[1].sessions :
          LET session == scanned[1].sessions[i]
              pruned == scanned[1].sessions[j]
          IN  /\ scanned[1].previous[session.id] # None
              /\ scanned[1].previous[session.id] # session.status
              /\ PREVIOUS_STATUS[session.id] = session.status
              /\ pruned.id # session.id
              /\ PREVIOUS_STATUS[pruned.id] = None

(***************************************************************************)
(* C37: set_project_links and set_session_links on the same project are    *)
(* serialised by the CONFIG_CACHE lock over their whole read-modify-write: *)
(* a link writer past its lock() holds the lock until it returns, and      *)
(* after both have returned Ok the config file holds the project links of  *)
(* the one and the session links of the other, and CONFIG_CACHE has no     *)
(* entry for the project.                                                  *)
(***************************************************************************)
HoldsSessionLinks(config, session_id, links) ==
    IF links = <<>> THEN session_id \notin DOMAIN config.session_links
    ELSE /\ session_id \in DOMAIN config.session_links
         /\ config.session_links[session_id] = links

C37_LinkWritesSerialised ==
    /\ \A t \in Threads :
          (threads[t].op \in Setters /\ threads[t].at > 1) =>
              lockHolder["CONFIG_CACHE"] = t
    /\ \A t, u \in Threads :
          (/\ lastOk[t] # Nothing /\ lastOk[u] # Nothing
           /\ lastOk[t][1].op = "set_project_links"
           /\ lastOk[u][1].op = "set_session_links") =>
              /\ configFile # Nothing
              /\ configFile[1].links = lastOk[t][1].links
              /\ HoldsSessionLinks(configFile[1], "s1", lastOk[u][1].links)
              /\ PathProject \notin DOMAIN CONFIG_CACHE.map

\* set_session_links waited for the lock while set_project_links wrote over
\* an older file, and both have returned Ok
C37_Witness ==
    /\ lastOk["scan"] # Nothing /\ lastOk["command"] # Nothing
    /\ lastOk["scan"][1].op = "set_project_links"
    /\ lastOk["scan"][1].overlapped
    /\ lastOk["command"][1].op = "set_session_links"
    /\ lastOk["command"][1].links = LinksNote
    /\ configFile = Some(ProjectConfig(LinksDocs, [sid \in {"s1"} |-> LinksNote]))

(***************************************************************************)
(* C38: no thread ever holds two of the engine's locks at the same time,   *)
(* no interleaving of the handlers leaves every running thread waiting     *)
(* for a lock, and every handler that was called returns: each thread is   *)
(* outside every handler again and again.                                  *)
(***************************************************************************)
LocksHeld(t) == {name \in LockNames : lockHolder[name] = t}

AtMostOneLock == \A t \in Threads : Cardinality(LocksHeld(t)) <= 1

Blocked(t) ==
    /\ Running(t)
    /\ NextStep(t).kind = "lock"
    /\ lockHolder[NextStep(t).on] # NoThread

NoDeadlock == (\E t \in Threads : Running(t)) => \E t \in Threads : Running(t) /\ ~Blocked(t)

====
